---- MODULE Spec2Model ----
(***************************************************************************)
(* Verification model of the spira text-to-SQL pipeline.                   *)
(*                                                                         *)
(* Five state machines share this module, each with its own specification: *)
(*   SpecEmbed  BedrockEmbeddingClient.generate_embedding (retry loop)     *)
(*   SpecBatch  BedrockEmbeddingClient.generate_embeddings_batch           *)
(*   SpecParse  NotebookParser.parse_notebook / parse_notebooks_parallel   *)
(*   SpecQuery  QueryEngine.generate_sql                                   *)
(*   SpecBuild  KnowledgeBaseBuilder.build_knowledge_base                  *)
(*                                                                         *)
(* Time is counted in tenths of a second, confidence in hundredths.        *)
(***************************************************************************)
EXTENDS Integers, Sequences, FiniteSets, TLC

None == "None"

Min(a, b) == IF a < b THEN a ELSE b

RECURSIVE Pow2(_)
Pow2(n) == IF n = 0 THEN 1 ELSE 2 * Pow2(n - 1)

(***************************************************************************)
(* BedrockEmbeddingClient: configuration set in __init__                   *)
(***************************************************************************)
max_retries == 3
base_delay == 10
max_delay == 300
min_request_interval == 1
max_length == 8000

\* Bounds of the model
MaxProbeAttempt == 6
MaxCallTime == 1

VARIABLES
    \* generate_embedding
    text,               \* the input text: [len, blank]
    embedding_model,    \* "titan" | "cohere" | "other"
    ge_pc,              \* "start" | "loop" | "done"
    attempt,            \* loop variable of the retry loop
    outcomes,           \* provider outcomes seen so far, one per call
    sleeps,             \* backoff delays slept so far
    sent_len,           \* length of the text handed to the provider
    now,                \* time.time()
    last_request_time,  \* self.last_request_time
    ge_result,          \* returned value, "unset" until the call returns
    ge_raised,          \* TRUE when an exception left generate_embedding
    probe_attempt,      \* argument for a direct call of _exponential_backoff
    probe_delay         \* its result: <<>> before the call, <<delay>> after

embVars == <<text, embedding_model, ge_pc, attempt, outcomes, sleeps,
             sent_len, now, last_request_time, ge_result, ge_raised,
             probe_attempt, probe_delay>>

VARIABLES
    \* generate_embeddings_batch
    texts,          \* the input list
    max_workers,    \* size of the thread pool
    b_pc,           \* "start" | "submit" | "collect" | "done"
    future,         \* per index: "none" | "queued" | "running" | "finished"
    future_value,   \* per index: what future.result() gives, or "raised"
    embeddings,     \* the local list that is filled in
    completed,      \* indices in the order as_completed yielded them
    b_result        \* the returned list, "unset" until the call returns

batchVars == <<texts, max_workers, b_pc, future, future_value, embeddings,
               completed, b_result>>

VARIABLES
    \* parse_notebooks_parallel
    notebook_paths,     \* what discover_notebooks returned
    p_max_workers,      \* size of the thread pool
    p_pc,               \* "start" | "submit" | "collect" | "done"
    p_future,           \* per path: "none" | "queued" | "running" |
                        \*           "finished" | "raised"
    p_future_value,     \* per path: <<>> for None, <<nb>> for a ParsedNotebook
    parsed_notebooks,   \* the local list that is filled in
    p_completed,        \* indices in the order as_completed yielded them
    p_result            \* the returned list, "unset" until the call returns

parseVars == <<notebook_paths, p_max_workers, p_pc, p_future, p_future_value,
               parsed_notebooks, p_completed, p_result>>

VARIABLES
    \* generate_sql
    q_pc,               \* "embed" | "search" | "schema" | "patterns" |
                        \* "generate" | "done"
    hybrid_search,      \* the hybrid_search argument
    q_calls,            \* the collaborator calls made, with their outcomes
    similar_docs,       \* the hits of the search
    schema_context,     \* local of generate_sql
    business_context,   \* local of generate_sql
    rag_context,        \* the prompt sections, in order
    response,           \* <<text>> once the generation model returned one
    q_result,           \* the SQLResult, "unset" until the call returns
    q_raised            \* TRUE when an exception left generate_sql

queryVars == <<q_pc, hybrid_search, q_calls, similar_docs, schema_context,
               business_context, rag_context, response, q_result, q_raised>>

VARIABLES
    \* the knowledge index (OpenSearch)
    index_exists,       \* whether the index exists
    index_docs,         \* document id -> number of the build that wrote it
    index_ops,          \* index mutations requested by the current build
    \* build_knowledge_base
    kb_pc,              \* the stage about to run; "idle" between builds
    force_rebuild,      \* argument of the current build
    builds,             \* number of builds started so far
    stages,             \* the stages the current build has run
    schema_metadata,    \* number of tables with catalog metadata
    kb_notebooks,       \* parsed notebooks: the SQL cell count of each
    sql_extracts,       \* number of SQL extracts
    documents,          \* positions of the extracts that have an embedding
    batch_start,        \* loop variable i of _index_documents_in_batches
    indexed_count,      \* total_indexed
    bulk_requests,      \* the batches handed to bulk_index_documents, in
                        \* order, each with the count it returned
    stored,             \* digest ids whose index_document call succeeded
    kb_result,          \* "unset" | "True" | "False"
    kb_raised,          \* TRUE when an exception left build_knowledge_base
    created,            \* what create_index returned: "unset" | "True" | "False"
    existed_before,     \* index_exists when the current build started
    docs_before         \* ids in the index when the current build started

indexVars == <<index_exists, index_docs, index_ops>>

buildVars == <<kb_pc, force_rebuild, builds, stages, schema_metadata,
               kb_notebooks, sql_extracts, documents, batch_start,
               indexed_count, bulk_requests, stored, kb_result, kb_raised,
               created, existed_before, docs_before>>

\* ex_notebooks: parsed_notebooks argument of extract_sql_with_context
\* ex_next: number of notebooks the outer loop has gone through
\* ex_extracts: sql_extracts of extract_sql_with_context
VARIABLES
    ex_notebooks,
    ex_next,
    ex_extracts

extractVars == <<ex_notebooks, ex_next, ex_extracts>>

\* v_sql: sql_query argument of validate_sql, a sequence of characters
\* v_pc: "call" before validate_sql runs, "done" after
\* v_result: the (is_valid, message) pair returned
VARIABLES
    v_sql,
    v_pc,
    v_result

validateVars == <<v_sql, v_pc, v_result>>

\* r_reply: the reply of the generation model: segments, confidence text, explanation text
\* r_pc: "call" before _parse_claude_response runs, "done" after
\* r_parsed: the (sql_query, confidence, explanation) triple returned
VARIABLES
    r_reply,
    r_pc,
    r_parsed

responseVars == <<r_reply, r_pc, r_parsed>>

\* a_sql: the text handed to analyze_query
\* a_fault: the step of analyze_query that raises, "none" when no step does
\* a_pc: "idle", "ready" or "done"
\* a_pattern: the SQLPattern returned, <<>> before the call returns
\* a_raised: TRUE when an exception left analyze_query
VARIABLES
    a_sql,
    a_fault,
    a_pc,
    a_pattern,
    a_raised

analyzeVars == <<a_sql, a_fault, a_pc, a_pattern, a_raised>>

\* bp_extracts: the corpus handed to analyze_business_patterns, the sql_query of each extract
\* bp_next: the number of extracts the loop has gone through
\* bp_patterns: the sql_pattern of each extract gone through
\* bp_relationships: business_pattern.table_relationships, an ordered dictionary as a sequence of <<key, value>>
\* bp_filter_counts: table_filter_counts, table to (filter to count), ordered dictionaries
\* bp_agg_counts: table_agg_counts, table to (aggregation to count), ordered dictionaries
\* bp_calculations: business_pattern.business_calculations
\* bp_dates: business_pattern.date_patterns
\* bp_result: the BusinessPattern returned, <<>> before the call returns
\* bp_pc: "idle", "loop" or "done"
VARIABLES
    bp_extracts,
    bp_next,
    bp_patterns,
    bp_relationships,
    bp_filter_counts,
    bp_agg_counts,
    bp_calculations,
    bp_dates,
    bp_result,
    bp_pc

mineVars ==
    <<bp_extracts, bp_next, bp_patterns, bp_relationships, bp_filter_counts,
      bp_agg_counts, bp_calculations, bp_dates, bp_result, bp_pc>>

\* d_text: the text handed to _contains_sql
\* d_pc: "idle", "ready" or "done"
\* d_result: what _contains_sql returned, <<>> before it returns
VARIABLES
    d_text,
    d_pc,
    d_result

detectVars == <<d_text, d_pc, d_result>>

\* n_dialect: "jupyter" or "zeppelin", the dialect of the document
\* n_data: the JSON document: its cells or its paragraphs
\* n_pc: "idle", "ready" or "done"
\* n_notebook: the ParsedNotebook built, <<>> before the parser returns
VARIABLES
    n_dialect,
    n_data,
    n_pc,
    n_notebook

cellsVars == <<n_dialect, n_data, n_pc, n_notebook>>

\* h_args: the arguments of hybrid_search: query_text, size and alpha
\*   (<<>> when alpha is left to its default)
\* h_pc: "idle", "ready" or "done"
\* h_body: the search body handed to the client, <<>> before the call
\* h_results: what hybrid_search returned, <<>> before it returns
VARIABLES
    h_args,
    h_pc,
    h_body,
    h_results

hybridVars == <<h_args, h_pc, h_body, h_results>>

\* rl_threads: number of worker threads of the pool
\* rl_queue: tasks submitted and not yet taken by a worker
\* rl_pc: position of each worker: idle, time, check, sleep, update
\* rl_current_time: current_time of each worker
\* rl_wake: time at which the sleep of each worker ends
\* rl_now: time.time()
\* rl_last_request_time: self.last_request_time of the shared client
\* rl_calls: times at which the provider calls were released, in order
VARIABLES
    rl_threads,
    rl_queue,
    rl_pc,
    rl_current_time,
    rl_wake,
    rl_now,
    rl_last_request_time,
    rl_calls

rateVars == <<rl_threads, rl_queue, rl_pc, rl_current_time, rl_wake, rl_now, rl_last_request_time, rl_calls>>

\* sq_pc: stage of the build about to run, or returned
\* sq_force: force_rebuild
\* sq_existed: whether the index existed when the build began
\* sq_max_workers: size of the thread pool of a parallel stage
\* sq_entered: whether the pool of the current stage has its tasks
\* sq_tasks: state of each task of the pool: pending, running, done
\* sq_batches: bulk batches still to be sent
\* sq_events: stage entries and index requests in order, each with the number of worker tasks running at that time
VARIABLES
    sq_pc,
    sq_force,
    sq_existed,
    sq_max_workers,
    sq_entered,
    sq_tasks,
    sq_batches,
    sq_events

sequenceVars == <<sq_pc, sq_force, sq_existed, sq_max_workers, sq_entered, sq_tasks, sq_batches, sq_events>>

\* fmt_pattern: the BusinessPattern handed to format_patterns_for_context, <<>> outside this part
\* fmt_outputs: the text each run returned, in the order of the runs
VARIABLES
    fmt_pattern,
    fmt_outputs

formatVars == <<fmt_pattern, fmt_outputs>>

\* kd_extracts: the SQL extracts handed to generate_embeddings_for_knowledge_base
\* kd_texts: the texts submitted for embedding, one per extract
\* kd_embeddings: what generate_embeddings_batch returned, one entry per text
\* kd_documents: the documents returned for indexing
\* kd_start: the offset of the next bulk batch
\* kd_indexed: total_indexed, the number of documents the bulk requests took
\* kd_index: the documents of the index: id, document_type and content
\* kd_pc: "off", "prepare", "embed", "combine", "index", "store_schema",
\*        "store_patterns", "failed" or "done"
VARIABLES
    kd_extracts,
    kd_texts,
    kd_embeddings,
    kd_documents,
    kd_start,
    kd_indexed,
    kd_index,
    kd_pc

docsVars ==
    <<kd_extracts, kd_texts, kd_embeddings, kd_documents, kd_start, kd_indexed,
      kd_index, kd_pc>>

\* ad_build: the number of the build under way, 0 outside this part
\* ad_first: the query documents of the index when the first build returned
VARIABLES
    ad_build,
    ad_first

additiveVars == <<ad_build, ad_first>>

vars == <<embVars, batchVars, parseVars, queryVars, indexVars, buildVars,
    extractVars, validateVars, responseVars, analyzeVars, mineVars,
    detectVars, cellsVars, hybridVars, rateVars, sequenceVars, formatVars,
    docsVars, additiveVars>>

notEmb == <<batchVars, parseVars, queryVars, indexVars, buildVars,
    extractVars, validateVars, responseVars, analyzeVars, mineVars,
    detectVars, cellsVars, hybridVars, rateVars, sequenceVars, formatVars,
    docsVars, additiveVars>>
notBatch == <<embVars, parseVars, queryVars, indexVars, buildVars,
    extractVars, validateVars, responseVars, analyzeVars, mineVars,
    detectVars, cellsVars, hybridVars, rateVars, sequenceVars, formatVars,
    docsVars, additiveVars>>
notParse == <<embVars, batchVars, queryVars, indexVars, buildVars,
    extractVars, validateVars, responseVars, analyzeVars, mineVars,
    detectVars, cellsVars, hybridVars, rateVars, sequenceVars, formatVars,
    docsVars, additiveVars>>
notQuery == <<embVars, batchVars, parseVars, indexVars, buildVars,
    extractVars, validateVars, responseVars, analyzeVars, mineVars,
    detectVars, cellsVars, hybridVars, rateVars, sequenceVars, formatVars,
    docsVars, additiveVars>>
notBuild == <<embVars, batchVars, parseVars, queryVars, extractVars,
    validateVars, responseVars, analyzeVars, mineVars, detectVars, cellsVars,
    hybridVars, rateVars, sequenceVars, formatVars, docsVars, additiveVars>>
notExtract == <<embVars, batchVars, parseVars, queryVars, indexVars,
    buildVars, validateVars, responseVars, analyzeVars, mineVars, detectVars,
    cellsVars, hybridVars, rateVars, sequenceVars, formatVars, docsVars,
    additiveVars>>
notValidate == <<embVars, batchVars, parseVars, queryVars, indexVars,
    buildVars, extractVars, responseVars, analyzeVars, mineVars, detectVars,
    cellsVars, hybridVars, rateVars, sequenceVars, formatVars, docsVars,
    additiveVars>>
notResponse == <<embVars, batchVars, parseVars, queryVars, indexVars,
    buildVars, extractVars, validateVars, analyzeVars, mineVars, detectVars,
    cellsVars, hybridVars, rateVars, sequenceVars, formatVars, docsVars,
    additiveVars>>
notAnalyze == <<embVars, batchVars, parseVars, queryVars, indexVars,
    buildVars, extractVars, validateVars, responseVars, mineVars, detectVars,
    cellsVars, hybridVars, rateVars, sequenceVars, formatVars, docsVars,
    additiveVars>>
notMine == <<embVars, batchVars, parseVars, queryVars, indexVars, buildVars,
    extractVars, validateVars, responseVars, analyzeVars, detectVars,
    cellsVars, hybridVars, rateVars, sequenceVars, formatVars, docsVars,
    additiveVars>>
notDetect == <<embVars, batchVars, parseVars, queryVars, indexVars,
    buildVars, extractVars, validateVars, responseVars, analyzeVars,
    mineVars, cellsVars, hybridVars, rateVars, sequenceVars, formatVars,
    docsVars, additiveVars>>
notCells == <<embVars, batchVars, parseVars, queryVars, indexVars, buildVars,
    extractVars, validateVars, responseVars, analyzeVars, mineVars,
    detectVars, hybridVars, rateVars, sequenceVars, formatVars, docsVars,
    additiveVars>>
notHybrid == <<embVars, batchVars, parseVars, queryVars, indexVars,
    buildVars, extractVars, validateVars, responseVars, analyzeVars,
    mineVars, detectVars, cellsVars, rateVars, sequenceVars, formatVars,
    docsVars, additiveVars>>
notRate == <<embVars, batchVars, parseVars, queryVars, indexVars, buildVars,
    extractVars, validateVars, responseVars, analyzeVars, mineVars,
    detectVars, cellsVars, hybridVars, sequenceVars, formatVars, docsVars,
    additiveVars>>
notSequence == <<embVars, batchVars, parseVars, queryVars, indexVars,
    buildVars, extractVars, validateVars, responseVars, analyzeVars,
    mineVars, detectVars, cellsVars, hybridVars, rateVars, formatVars,
    docsVars, additiveVars>>
notFormat == <<embVars, batchVars, parseVars, queryVars, indexVars,
    buildVars, extractVars, validateVars, responseVars, analyzeVars,
    mineVars, detectVars, cellsVars, hybridVars, rateVars, sequenceVars,
    docsVars, additiveVars>>
notDocs == <<embVars, batchVars, parseVars, queryVars, indexVars, buildVars,
    extractVars, validateVars, responseVars, analyzeVars, mineVars,
    detectVars, cellsVars, hybridVars, rateVars, sequenceVars, formatVars,
    additiveVars>>
notAdditive == <<embVars, batchVars, parseVars, queryVars, indexVars,
    buildVars, extractVars, validateVars, responseVars, analyzeVars,
    mineVars, detectVars, cellsVars, hybridVars, rateVars, sequenceVars,
    formatVars, docsVars>>

\* Each subsystem at rest, for the specifications that do not run it.
IdleAdditive ==
    /\ ad_build = 0
    /\ ad_first = {}

IdleDocs ==
    /\ kd_extracts = <<>>
    /\ kd_texts = <<>>
    /\ kd_embeddings = <<>>
    /\ kd_documents = <<>>
    /\ kd_start = 0
    /\ kd_indexed = 0
    /\ kd_index = {}
    /\ kd_pc = "off"

IdleFormat ==
    /\ fmt_pattern = <<>>
    /\ fmt_outputs = <<>>

IdleSequence ==
    /\ sq_pc = "off"
    /\ sq_force = FALSE
    /\ sq_existed = FALSE
    /\ sq_max_workers = 1
    /\ sq_entered = FALSE
    /\ sq_tasks = <<>>
    /\ sq_batches = 0
    /\ sq_events = <<>>

IdleRate ==
    /\ rl_threads = 1
    /\ rl_queue = 0
    /\ rl_pc = <<>>
    /\ rl_current_time = <<>>
    /\ rl_wake = <<>>
    /\ rl_now = 0
    /\ rl_last_request_time = 0
    /\ rl_calls = <<>>

IdleHybrid ==
    /\ h_args = <<>>
    /\ h_pc = "idle"
    /\ h_body = <<>>
    /\ h_results = <<>>

IdleCells ==
    /\ n_dialect = "none"
    /\ n_data = <<>>
    /\ n_pc = "idle"
    /\ n_notebook = <<>>

IdleDetect ==
    /\ d_text = <<>>
    /\ d_pc = "idle"
    /\ d_result = <<>>

IdleMine ==
    /\ bp_extracts = <<>>
    /\ bp_next = 0
    /\ bp_patterns = <<>>
    /\ bp_relationships = <<>>
    /\ bp_filter_counts = <<>>
    /\ bp_agg_counts = <<>>
    /\ bp_calculations = <<>>
    /\ bp_dates = <<>>
    /\ bp_result = <<>>
    /\ bp_pc = "idle"

IdleAnalyze ==
    /\ a_sql = <<>>
    /\ a_fault = "none"
    /\ a_pc = "idle"
    /\ a_pattern = <<>>
    /\ a_raised = FALSE

IdleResponse ==
    /\ r_reply = <<>>
    /\ r_pc = "idle"
    /\ r_parsed = <<>>

IdleValidate ==
    /\ v_sql = <<>>
    /\ v_pc = "idle"
    /\ v_result = <<>>

IdleExtract ==
    /\ ex_notebooks = <<>>
    /\ ex_next = 0
    /\ ex_extracts = <<>>

IdleEmbed ==
    /\ text = [len |-> 0, blank |-> TRUE]
    /\ embedding_model = "titan"
    /\ ge_pc = "idle"
    /\ attempt = 0
    /\ outcomes = <<>>
    /\ sleeps = <<>>
    /\ sent_len = 0
    /\ now = 0
    /\ last_request_time = 0
    /\ ge_result = "unset"
    /\ ge_raised = FALSE
    /\ probe_attempt = 0
    /\ probe_delay = <<0>>

IdleParse ==
    /\ notebook_paths = <<>>
    /\ p_max_workers = 1
    /\ p_pc = "idle"
    /\ p_future = <<>>
    /\ p_future_value = <<>>
    /\ parsed_notebooks = <<>>
    /\ p_completed = <<>>
    /\ p_result = "unset"

IdleQuery ==
    /\ q_pc = "idle"
    /\ hybrid_search = TRUE
    /\ q_calls = <<>>
    /\ similar_docs = <<>>
    /\ schema_context = ""
    /\ business_context = ""
    /\ rag_context = <<>>
    /\ response = <<>>
    /\ q_result = "unset"
    /\ q_raised = FALSE

IdleBuild ==
    /\ index_exists = FALSE
    /\ index_docs = {}
    /\ index_ops = <<>>
    /\ kb_pc = "off"
    /\ created = "unset"
    /\ force_rebuild = FALSE
    /\ builds = 0
    /\ stages = <<>>
    /\ schema_metadata = 0
    /\ kb_notebooks = <<>>
    /\ sql_extracts = 0
    /\ documents = <<>>
    /\ batch_start = 0
    /\ indexed_count = 0
    /\ bulk_requests = <<>>
    /\ stored = {}
    /\ kb_result = "unset"
    /\ kb_raised = FALSE
    /\ existed_before = FALSE
    /\ docs_before = {}

IdleBatch ==
    /\ texts = <<>>
    /\ max_workers = 1
    /\ b_pc = "idle"
    /\ future = <<>>
    /\ future_value = <<>>
    /\ embeddings = <<>>
    /\ completed = <<>>
    /\ b_result = "unset"

\* Input texts: the empty string, a blank string, a short text, a text of
\* exactly max_length characters and one that is longer.
Texts ==
    { [len |-> 0, blank |-> TRUE],
      [len |-> 1, blank |-> TRUE],
      [len |-> 1, blank |-> FALSE],
      [len |-> max_length, blank |-> FALSE],
      [len |-> max_length + 1, blank |-> FALSE] }

Models == {"titan", "cohere", "other"}

\* What one invoke_model call can do.
ProviderOutcomes ==
    {"embedding", "no_embedding", "ThrottlingException", "ClientError", "Exception"}

\* Mutant: the delay is not capped at max_delay.
_exponential_backoff_uncapped(a) == base_delay * Pow2(a)

_exponential_backoff(a) == Min(base_delay * Pow2(a), max_delay)

\* _rate_limit: the time after the call and the new last_request_time
\* (both are the time at which the method returns).
_rate_limit(t, last) ==
    IF t - last < min_request_interval
    THEN t + (min_request_interval - (t - last))
    ELSE t

InitEmbed ==
    /\ text \in Texts
    /\ embedding_model \in Models
    /\ ge_pc = "start"
    /\ attempt = 0
    /\ outcomes = <<>>
    /\ sleeps = <<>>
    /\ sent_len = 0
    /\ now = min_request_interval
    /\ last_request_time \in 0..now
    /\ ge_result = "unset"
    /\ ge_raised = FALSE
    /\ probe_attempt \in 0..MaxProbeAttempt
    /\ probe_delay = <<>>
    /\ IdleBatch
    /\ IdleParse
    /\ IdleQuery
    /\ IdleBuild
    /\ IdleExtract
    /\ IdleValidate
    /\ IdleResponse
    /\ IdleAnalyze
    /\ IdleMine
    /\ IdleDetect
    /\ IdleCells
    /\ IdleHybrid
    /\ IdleRate
    /\ IdleSequence
    /\ IdleFormat
    /\ IdleDocs
    /\ IdleAdditive

\* Lines 72-80: the empty/blank check and the truncation.
ge_Enter ==
    /\ ge_pc = "start"
    /\ IF text.len = 0 \/ text.blank
       THEN /\ ge_result' = None
            /\ ge_pc' = "done"
            /\ sent_len' = sent_len
       ELSE /\ sent_len' = IF text.len > max_length THEN max_length ELSE text.len
            /\ ge_pc' = "loop"
            /\ ge_result' = ge_result
    /\ UNCHANGED <<text, embedding_model, attempt, outcomes, sleeps, now,
                   last_request_time, ge_raised, probe_attempt, probe_delay,
                   notEmb>>

\* Mutant: a failed call is retried at once, without the backoff sleep.
ge_RetryOrGiveUp_nosleep(t) ==
    IF attempt < max_retries - 1
    THEN /\ now' = t
         /\ attempt' = attempt + 1
         /\ UNCHANGED <<ge_pc, ge_result, sleeps>>
    ELSE /\ ge_result' = None
         /\ ge_pc' = "done"
         /\ now' = t
         /\ UNCHANGED <<sleeps, attempt>>

\* What the handlers of lines 126-150 do with a failed call.
ge_RetryOrGiveUp(t) ==
    IF attempt < max_retries - 1
    THEN /\ sleeps' = Append(sleeps, _exponential_backoff(attempt))
         /\ now' = t + _exponential_backoff(attempt)
         /\ attempt' = attempt + 1
         /\ UNCHANGED <<ge_pc, ge_result>>
    ELSE /\ ge_result' = None
         /\ ge_pc' = "done"
         /\ now' = t
         /\ UNCHANGED <<sleeps, attempt>>

ge_Return(t, r) ==
    /\ ge_result' = r
    /\ ge_pc' = "done"
    /\ now' = t
    /\ UNCHANGED <<sleeps, attempt>>

\* One iteration of the retry loop, lines 82-150.
ge_Attempt ==
    /\ ge_pc = "loop"
    /\ attempt < max_retries
    /\ LET t1 == _rate_limit(now, last_request_time) IN
       /\ last_request_time' = t1
       /\ IF embedding_model = "other"
          THEN /\ ge_Return(t1, None)
               /\ UNCHANGED outcomes
          ELSE \E o \in ProviderOutcomes, d \in 0..MaxCallTime :
                 /\ outcomes' = Append(outcomes, o)
                 /\ CASE o = "embedding" -> ge_Return(t1 + d, "embedding")
                      [] o = "no_embedding" -> ge_Return(t1 + d, None)
                      [] o = "ThrottlingException" -> ge_RetryOrGiveUp(t1 + d)
                      [] o = "ClientError" -> ge_Return(t1 + d, None)
                      [] o = "Exception" -> ge_RetryOrGiveUp(t1 + d)
    /\ UNCHANGED <<text, embedding_model, sent_len, ge_raised,
                   probe_attempt, probe_delay, notEmb>>

\* A direct call of _exponential_backoff.
ge_Backoff ==
    /\ probe_delay = <<>>
    /\ probe_delay' = <<_exponential_backoff(probe_attempt)>>
    /\ UNCHANGED <<text, embedding_model, ge_pc, attempt, outcomes, sleeps,
                   sent_len, now, last_request_time, ge_result, ge_raised,
                   probe_attempt, notEmb>>

NextEmbed ==
    \/ ge_Enter
    \/ ge_Attempt
    \/ ge_Backoff

SpecEmbed == InitEmbed /\ [][NextEmbed]_vars

\* generate_embedding is straight-line code in one thread: a step that can
\* be taken is taken.
SpecEmbedFair == SpecEmbed /\ WF_vars(ge_Enter) /\ WF_vars(ge_Attempt)

IsRetryable(o) == o \in {"ThrottlingException", "Exception"}

\* The k-th call failed and was followed by a backoff sleep and another call
\* (or the loop is about to make it).
RetriedAfter(k) ==
    /\ Len(sleeps) >= k
    /\ sleeps[k] = Min(base_delay * Pow2(k - 1), max_delay)
    /\ (ge_pc = "done" => Len(outcomes) > k)

\* C7 as stated: every error other than throttling, a provider ClientError
\* with another code included, is retried with the backoff and the attempt
\* count of a throttling error.
C7_AnyErrorRetried ==
    \A k \in 1..Len(outcomes) :
        (outcomes[k] \in {"ClientError", "Exception"} /\ k < max_retries)
            => RetriedAfter(k)

\* C7 amended: an exception that is not a provider ClientError is retried
\* exactly like a throttling error; a ClientError whose code is not
\* ThrottlingException ends the call at once with a null result and without
\* a backoff sleep.
C7_NonClientErrorRetried ==
    \A k \in 1..Len(outcomes) :
        /\ (IsRetryable(outcomes[k]) /\ k < max_retries) => RetriedAfter(k)
        /\ (IsRetryable(outcomes[k]) /\ k = max_retries)
              => (ge_pc = "done" /\ ge_result = None /\ Len(sleeps) = k - 1)
        /\ outcomes[k] = "ClientError"
              => /\ k = Len(outcomes)
                 /\ ge_pc = "done"
                 /\ ge_result = None
                 /\ Len(sleeps) = k - 1

C7_Witness ==
    /\ ge_pc = "done"
    /\ outcomes = <<"Exception", "Exception", "ClientError">>
    /\ sleeps = <<base_delay, 2 * base_delay>>
    /\ ge_result = None

C8_Safe ==
    /\ ~ge_raised
    /\ Len(outcomes) <= max_retries
    /\ Len(sleeps) <= Len(outcomes)
    /\ (ge_pc = "done" /\ outcomes # <<>>) => Len(sleeps) = Len(outcomes) - 1
    /\ (ge_pc = "loop") => Len(sleeps) = Len(outcomes)
    /\ \A k \in 1..Len(sleeps) :
          /\ sleeps[k] = Min(base_delay * Pow2(k - 1), max_delay)
          /\ sleeps[k] <= max_delay
    /\ probe_delay # <<>> =>
          /\ probe_delay[1] = Min(base_delay * Pow2(probe_attempt), max_delay)
          /\ probe_delay[1] <= max_delay
    /\ (ge_pc = "done" /\ Len(outcomes) = max_retries
            /\ outcomes[max_retries] # "embedding") => ge_result = None
    /\ ge_pc = "done" =>
          (ge_result = "embedding"
             <=> (outcomes # <<>> /\ outcomes[Len(outcomes)] = "embedding"))
    /\ ge_pc = "done" => ge_result \in {None, "embedding"}
    /\ (text.len = 0 \/ text.blank) =>
          (outcomes = <<>> /\ (ge_pc = "done" => ge_result = None))

\* C8: generate_embedding terminates without raising, calls the provider at
\* most max_retries times, sleeps min(base_delay * 2^attempt, max_delay)
\* between attempts only, returns null when the attempts are used up, and
\* returns null without a call for empty or blank input.
C8_TerminatesBounded == [](C8_Safe) /\ <>(ge_pc = "done")

C8_Witness ==
    /\ ge_pc = "done"
    /\ Len(outcomes) = max_retries
    /\ outcomes[max_retries] = "ThrottlingException"
    /\ ge_result = None
    /\ Len(sleeps) = max_retries - 1
    /\ probe_delay = <<max_delay>>

(***************************************************************************)
(* BedrockEmbeddingClient.generate_embeddings_batch                        *)
(***************************************************************************)
MaxTexts == 3
MaxWorkers == 3

\* The texts of a batch: the empty string, a blank one and two other texts.
TextPool == {"", " ", "a", "b"}

\* The vector the provider gives for a text.
Vec(t) == CASE t = "a" -> "vec_a" [] t = "b" -> "vec_b" [] OTHER -> None

\* What generate_embedding(t) can return: null for empty or blank input,
\* else the vector or, after a failure, null.  No exception leaves it, so
\* future.result() never gives "raised".
TaskOutcomes(t) ==
    IF t \in {"", " "} THEN {None} ELSE {Vec(t), None}

SeqsUpTo(S, n) == UNION { [1..k -> S] : k \in 0..n }

Running == { i \in 1..Len(texts) : future[i] = "running" }

InitBatch ==
    /\ texts \in SeqsUpTo(TextPool, MaxTexts)
    /\ max_workers \in 1..MaxWorkers
    /\ b_pc = "start"
    /\ future = [i \in 1..Len(texts) |-> "none"]
    /\ future_value = [i \in 1..Len(texts) |-> "unset"]
    /\ embeddings = <<>>
    /\ completed = <<>>
    /\ b_result = "unset"
    /\ IdleEmbed
    /\ IdleParse
    /\ IdleQuery
    /\ IdleBuild
    /\ IdleExtract
    /\ IdleValidate
    /\ IdleResponse
    /\ IdleAnalyze
    /\ IdleMine
    /\ IdleDetect
    /\ IdleCells
    /\ IdleHybrid
    /\ IdleRate
    /\ IdleSequence
    /\ IdleFormat
    /\ IdleDocs
    /\ IdleAdditive

\* Lines 164-169.
b_Start ==
    /\ b_pc = "start"
    /\ IF texts = <<>>
       THEN /\ b_result' = <<>>
            /\ b_pc' = "done"
            /\ UNCHANGED embeddings
       ELSE /\ embeddings' = [i \in 1..Len(texts) |-> None]
            /\ b_pc' = "submit"
            /\ UNCHANGED b_result
    /\ UNCHANGED <<texts, max_workers, future, future_value, completed, notBatch>>

\* Lines 173-176: executor.submit for the next text, in input order.
b_Submit ==
    /\ b_pc = "submit"
    /\ LET i == CHOOSE j \in 1..Len(texts) :
                   future[j] = "none" /\ \A k \in 1..(j - 1) : future[k] # "none"
       IN /\ future' = [future EXCEPT ![i] = "queued"]
          /\ b_pc' = IF i = Len(texts) THEN "collect" ELSE "submit"
    /\ UNCHANGED <<texts, max_workers, future_value, embeddings, completed,
                   b_result, notBatch>>

\* A free pool thread takes the oldest queued task.
b_WorkerStart(i) ==
    /\ future[i] = "queued"
    /\ \A k \in 1..(i - 1) : future[k] # "queued"
    /\ Cardinality(Running) < max_workers
    /\ future' = [future EXCEPT ![i] = "running"]
    /\ UNCHANGED <<texts, max_workers, b_pc, future_value, embeddings,
                   completed, b_result, notBatch>>

\* The task generate_embedding(texts[i]) ends.
b_WorkerFinish(i) ==
    /\ future[i] = "running"
    /\ \E r \in TaskOutcomes(texts[i]) :
         future_value' = [future_value EXCEPT ![i] = r]
    /\ future' = [future EXCEPT ![i] = "finished"]
    /\ UNCHANGED <<texts, max_workers, b_pc, embeddings, completed, b_result,
                   notBatch>>

\* Mutant: results are stored in completion order, not at their index.
b_Collect_by_completion(i) ==
    /\ b_pc = "collect"
    /\ future[i] = "finished"
    /\ \A k \in 1..Len(completed) : completed[k] # i
    /\ completed' = Append(completed, i)
    /\ embeddings' =
         IF future_value[i] = "raised"
         THEN embeddings
         ELSE [embeddings EXCEPT ![Len(completed) + 1] = future_value[i]]
    /\ UNCHANGED <<texts, max_workers, b_pc, future, future_value, b_result,
                   notBatch>>

\* Lines 178-188: one iteration of the as_completed loop.
b_Collect(i) ==
    /\ b_pc = "collect"
    /\ future[i] = "finished"
    /\ \A k \in 1..Len(completed) : completed[k] # i
    /\ completed' = Append(completed, i)
    /\ embeddings' =
         IF future_value[i] = "raised"
         THEN embeddings
         ELSE [embeddings EXCEPT ![i] = future_value[i]]
    /\ UNCHANGED <<texts, max_workers, b_pc, future, future_value, b_result,
                   notBatch>>

\* Lines 190-193: the loop is over, the pool is shut down, the list returned.
b_Return ==
    /\ b_pc = "collect"
    /\ Len(completed) = Len(texts)
    /\ b_result' = embeddings
    /\ b_pc' = "done"
    /\ UNCHANGED <<texts, max_workers, future, future_value, embeddings,
                   completed, notBatch>>

b_Worker == \E i \in 1..Len(texts) : b_WorkerStart(i) \/ b_WorkerFinish(i)

b_AsCompleted == \E i \in 1..Len(texts) : b_Collect(i)

NextBatch ==
    \/ b_Start
    \/ b_Submit
    \/ b_Worker
    \/ b_AsCompleted
    \/ b_Return

SpecBatch == InitBatch /\ [][NextBatch]_vars

\* The entry the batch must hold for index i once its future was collected.
ExpectedEntry(i) ==
    IF future_value[i] = "raised" THEN None ELSE future_value[i]

\* C6: the batch returns one entry per input text, entry i being the result
\* of embedding texts[i] (null when the text is empty or the task failed or
\* raised), whatever the worker count and the completion order; an entry is
\* written by its own task only.
C6_BatchKeepsIndex ==
    /\ b_pc \in {"submit", "collect"} =>
          /\ Len(embeddings) = Len(texts)
          /\ \A i \in 1..Len(texts) :
                embeddings[i] =
                    IF \E k \in 1..Len(completed) : completed[k] = i
                    THEN ExpectedEntry(i)
                    ELSE None
    /\ b_pc = "done" =>
          /\ Len(b_result) = Len(texts)
          /\ \A i \in 1..Len(texts) :
                /\ b_result[i] = ExpectedEntry(i)
                /\ b_result[i] \in {None, Vec(texts[i])}
                /\ texts[i] \in {"", " "} => b_result[i] = None

C6_Witness ==
    /\ b_pc = "done"
    /\ texts = <<"a", "b", "b">>
    /\ max_workers = 2
    /\ completed = <<2, 3, 1>>
    /\ future_value = <<"vec_a", None, "vec_b">>
    /\ b_result = <<"vec_a", None, "vec_b">>

(***************************************************************************)
(* NotebookParser.  A text is a sequence of tokens: a word, a blank, a     *)
(* line break, a comment mark or a notebook directive.                     *)
(***************************************************************************)
MaxFiles == 3

NullSource == <<"null">>

\* The letters of a token in lower and in upper case.
LowerAtoms ==
    <<"select", "with", "insert", "%sql", "%%sql", "from", "where", "as", "and", "or",
      "join", "left", "inner", "limit", "count", "sum", "avg", "min",
      "max", "median", "stddev", "first", "_value", "last", "row",
      "_number", "rank", "dense", "_rank", "date", "_trunc", "_part",
      "extract", "dateadd", "datediff", "current", "_date", "_timestamp",
      "now", "getdate", "revenue", "sales", "_fact", "_tbl", "sql", "a", "b", "c",
      "d", "e", "f", "g", "m", "t", "x">>
UpperAtoms ==
    <<"SELECT", "WITH", "INSERT", "%SQL", "%%SQL", "FROM", "WHERE", "AS", "AND", "OR",
      "JOIN", "LEFT", "INNER", "LIMIT", "COUNT", "SUM", "AVG", "MIN",
      "MAX", "MEDIAN", "STDDEV", "FIRST", "_VALUE", "LAST", "ROW",
      "_NUMBER", "RANK", "DENSE", "_RANK", "DATE", "_TRUNC", "_PART",
      "EXTRACT", "DATEADD", "DATEDIFF", "CURRENT", "_DATE", "_TIMESTAMP",
      "NOW", "GETDATE", "REVENUE", "SALES", "_FACT", "_TBL", "SQL", "A", "B", "C",
      "D", "E", "F", "G", "M", "T", "X">>

\* str.upper() and str.lower(), one atom
UpperAtom(a) ==
    IF \E k \in 1..Len(LowerAtoms) : LowerAtoms[k] = a
    THEN UpperAtoms[CHOOSE k \in 1..Len(LowerAtoms) : LowerAtoms[k] = a]
    ELSE a

LowerAtom(a) ==
    IF \E k \in 1..Len(UpperAtoms) : UpperAtoms[k] = a
    THEN LowerAtoms[CHOOSE k \in 1..Len(UpperAtoms) : UpperAtoms[k] = a]
    ELSE a

Keywords ==
    {"SELECT", "WITH", "INSERT", "UPDATE", "DELETE", "CREATE", "ALTER", "DROP"}

IsSpace(tok) == tok \in {" ", "\n"}

\* str.strip()
RECURSIVE LStrip(_)
LStrip(t) == IF t # <<>> /\ IsSpace(Head(t)) THEN LStrip(Tail(t)) ELSE t

RECURSIVE RStrip(_)
RStrip(t) ==
    IF t # <<>> /\ IsSpace(t[Len(t)]) THEN RStrip(SubSeq(t, 1, Len(t) - 1)) ELSE t

Strip(t) == RStrip(LStrip(t))

\* re.sub(r'--.*$', '', text, flags=re.MULTILINE)
RECURSIVE StripLineComments(_, _)
StripLineComments(t, inComment) ==
    IF t = <<>> THEN <<>>
    ELSE IF inComment
         THEN IF Head(t) = "\n"
              THEN <<"\n">> \o StripLineComments(Tail(t), FALSE)
              ELSE StripLineComments(Tail(t), TRUE)
         ELSE IF Head(t) = "--"
              THEN StripLineComments(Tail(t), TRUE)
              ELSE <<Head(t)>> \o StripLineComments(Tail(t), FALSE)

\* re.sub(r'/\*.*?\*/', '', text, flags=re.DOTALL)
RECURSIVE StripBlockComments(_)
StripBlockComments(t) ==
    IF t = <<>> THEN <<>>
    ELSE IF Head(t) = "/*" /\ \E k \in 2..Len(t) : t[k] = "*/"
         THEN LET close == CHOOSE k \in 2..Len(t) :
                              t[k] = "*/" /\ \A j \in 2..(k - 1) : t[j] # "*/"
              IN StripBlockComments(SubSeq(t, close + 1, Len(t)))
         ELSE <<Head(t)>> \o StripBlockComments(Tail(t))

\* The patterns without their closing \s+ : ^\s*KEYWORD matches.
KeywordAtLineStart_unbounded(t) ==
    \E k \in 1..Len(t) :
        /\ UpperAtom(t[k]) \in Keywords
        /\ \E b \in 1..k :
              /\ (b = 1 \/ t[b - 1] = "\n")
              /\ \A q \in b..(k - 1) : IsSpace(t[q])

\* One of the patterns ^\s*KEYWORD\s+ (IGNORECASE, MULTILINE) matches.
KeywordAtLineStart(t) ==
    \E k \in 1..(Len(t) - 1) :
        /\ UpperAtom(t[k]) \in Keywords
        /\ IsSpace(t[k + 1])
        /\ \E b \in 1..k :
              /\ (b = 1 \/ t[b - 1] = "\n")
              /\ \A q \in b..(k - 1) : IsSpace(t[q])

\* %sql\s+ or %%sql (IGNORECASE) matches.
MagicMarker(t) ==
    \/ \E k \in 1..Len(t) : LowerAtom(t[k]) = "%%sql"
    \/ \E k \in 1..(Len(t) - 1) : LowerAtom(t[k]) = "%sql" /\ IsSpace(t[k + 1])

_contains_sql(t) ==
    IF t = NullSource \/ t = <<>> \/ Strip(t) = <<>>
    THEN FALSE
    ELSE LET text_no_comments == StripBlockComments(StripLineComments(t, FALSE))
         IN KeywordAtLineStart(text_no_comments) \/ MagicMarker(text_no_comments)

\* ''.join(source) for a list of fragments
RECURSIVE Join(_)
Join(parts) == IF parts = <<>> THEN <<>> ELSE Head(parts) \o Join(Tail(parts))

\* src is [form, parts]: a JSON string, a JSON list of strings or JSON null.
_extract_source(src) ==
    CASE src.form = "list" -> Join(src.parts)
      [] src.form = "str" -> src.parts[1]
      [] OTHER -> NullSource

RECURSIVE MapCells(_, _)
MapCells(Op(_), items) ==
    IF items = <<>> THEN <<>> ELSE <<Op(Head(items))>> \o MapCells(Op, Tail(items))

\* The test of line 219 without its first half.
IsSqlCell_any_type(c) == _contains_sql(c.source)

\* cell.cell_type == 'code' and self._contains_sql(cell.source)
IsSqlCell(c) == c.cell_type = "code" /\ _contains_sql(c.source)
IsMarkdownCell(c) == c.cell_type = "markdown"

JupyterCell(cell_data) ==
    [cell_type |-> IF cell_data.cell_type = "absent" THEN "code"
                   ELSE cell_data.cell_type,
     source |-> _extract_source(cell_data.source)]

_parse_jupyter_notebook(path, data) ==
    LET cells == MapCells(JupyterCell, data.cells) IN
    [notebook_path |-> path,
     notebook_type |-> "jupyter",
     cells |-> cells,
     sql_cells |-> SelectSeq(cells, IsSqlCell),
     markdown_cells |-> SelectSeq(cells, IsMarkdownCell)]

ZeppelinCell(paragraph) ==
    IF paragraph.text # <<>> /\ Head(paragraph.text) = "%md"
    THEN [cell_type |-> "markdown", source |-> Strip(Tail(paragraph.text))]
    ELSE [cell_type |-> "code", source |-> paragraph.text]

_parse_zeppelin_notebook(path, data) ==
    LET cells == MapCells(ZeppelinCell, data.paragraphs) IN
    [notebook_path |-> path,
     notebook_type |-> "zeppelin",
     cells |-> cells,
     sql_cells |-> SelectSeq(cells, IsSqlCell),
     markdown_cells |-> SelectSeq(cells, IsMarkdownCell)]

\* notebook_path.endswith('.ipynb')
EndsWithIpynb(path) == path.ext = ".ipynb"

\* Whether parsing the decoded JSON raises: .get on a list, or .startswith
\* on the null text of a paragraph.
ParseRaises(path, data) ==
    \/ data.top = "list"
    \/ /\ ~EndsWithIpynb(path)
       /\ \E k \in 1..Len(data.paragraphs) : data.paragraphs[k].text = NullSource

Returned(v) == [raised |-> FALSE, value |-> v]
Raised == [raised |-> TRUE, value |-> <<>>]

\* The body of the try block of parse_notebook, lines 163-172.
parse_notebook_body(path, file) ==
    IF file.top \in {"unreadable", "empty"} THEN Returned(<<>>)
    ELSE IF file.top = "badjson" \/ ParseRaises(path, file) THEN Raised
    ELSE IF EndsWithIpynb(path)
         THEN Returned(<<_parse_jupyter_notebook(path, file)>>)
         ELSE Returned(<<_parse_zeppelin_notebook(path, file)>>)

\* Mutant: the exception handler is missing.
parse_notebook_uncaught(path, file) == parse_notebook_body(path, file)

\* parse_notebook: value <<>> for None, <<nb>> for a ParsedNotebook.
parse_notebook(path, file) ==
    IF parse_notebook_body(path, file).raised
    THEN Returned(<<>>)
    ELSE parse_notebook_body(path, file)

(***************************************************************************)
(* The notebook files of the source location.                              *)
(***************************************************************************)
Str(t) == [form |-> "str", parts |-> <<t>>]
Lines(ps) == [form |-> "list", parts |-> ps]
JsonNull == [form |-> "null", parts |-> <<>>]

Doc(cells, paragraphs) == [top |-> "dict", cells |-> cells, paragraphs |-> paragraphs]
NoDoc(kind) == [top |-> kind, cells |-> <<>>, paragraphs |-> <<>>]

Path(name, ext) == [name |-> name, ext |-> ext]

AllPaths ==
    <<Path("a", ".ipynb"), Path("b", ".ipynb"), Path("c", ".ipynb"),
      Path("d", ".ipynb"), Path("e", ".json"), Path("f", ".json"),
      Path("g", ".json"), Path("h", ".ipynb"), Path("i", ".ipynb"),
      Path("j", ".json"), Path("k", ".ipynb")>>

FileContent(path) ==
    CASE path.name = "a" ->
           Doc(<<[cell_type |-> "markdown", source |-> Str(<<"x">>)],
                 [cell_type |-> "code",
                  source |-> Lines(<<<<"SELECT", " ", "x", "\n">>, <<"x">>>>)],
                 [cell_type |-> "absent", source |-> Str(<<"x">>)]>>, <<>>)
      [] path.name = "b" ->
           Doc(<<[cell_type |-> "markdown", source |-> Str(<<"SELECT", " ", "x">>)],
                 [cell_type |-> "code", source |-> Str(<<"x", " ", "SELECT", " ">>)],
                 [cell_type |-> "raw", source |-> Str(<<"%%sql">>)]>>, <<>>)
      [] path.name = "c" -> NoDoc("badjson")
      [] path.name = "d" -> NoDoc("empty")
      [] path.name = "e" ->
           Doc(<<>>, <<[text |-> <<"%md", " ", "x", "\n">>],
                       [text |-> <<"%sql", "\n", "x">>],
                       [text |-> <<"x">>]>>)
      [] path.name = "f" ->
           Doc(<<>>, <<[text |-> <<"SELECT", " ", "x">>], [text |-> NullSource]>>)
      [] path.name = "g" -> NoDoc("list")
      [] path.name = "h" -> NoDoc("unreadable")
      [] path.name = "i" ->
           Doc(<<[cell_type |-> "code", source |-> JsonNull],
                 [cell_type |-> "code",
                  source |-> Str(<<"--", "SELECT", " ", "x", "\n", "/*", "\n",
                                   "%%sql", "*/", "x">>)]>>, <<>>)
      [] path.name = "j" ->
           Doc(<<[cell_type |-> "code", source |-> Str(<<"SELECT", " ", "x">>)]>>,
               <<>>)
      [] path.name = "k" ->
           Doc(<<>>, <<[text |-> NullSource]>>)

InDirectory(dir) == LET In(pth) == pth \in dir IN SelectSeq(AllPaths, In)

Range(f) == { f[i] : i \in DOMAIN f }

Directories ==
    { d \in SUBSET Range(AllPaths) : Cardinality(d) <= MaxFiles }

P_Running == { i \in 1..Len(notebook_paths) : p_future[i] = "running" }

InitParse ==
    /\ \E d \in Directories : notebook_paths = InDirectory(d)
    /\ p_max_workers \in 1..MaxWorkers
    /\ p_pc = "start"
    /\ p_future = [i \in 1..Len(notebook_paths) |-> "none"]
    /\ p_future_value = [i \in 1..Len(notebook_paths) |-> <<>>]
    /\ parsed_notebooks = <<>>
    /\ p_completed = <<>>
    /\ p_result = "unset"
    /\ IdleEmbed
    /\ IdleBatch
    /\ IdleQuery
    /\ IdleBuild
    /\ IdleExtract
    /\ IdleValidate
    /\ IdleResponse
    /\ IdleAnalyze
    /\ IdleMine
    /\ IdleDetect
    /\ IdleCells
    /\ IdleHybrid
    /\ IdleRate
    /\ IdleSequence
    /\ IdleFormat
    /\ IdleDocs
    /\ IdleAdditive

\* Lines 331-336.
p_Start ==
    /\ p_pc = "start"
    /\ IF notebook_paths = <<>>
       THEN /\ p_result' = <<>>
            /\ p_pc' = "done"
       ELSE /\ p_pc' = "submit"
            /\ UNCHANGED p_result
    /\ UNCHANGED <<notebook_paths, p_max_workers, p_future, p_future_value,
                   parsed_notebooks, p_completed, notParse>>

\* Lines 341-344: executor.submit for the next path.
p_Submit ==
    /\ p_pc = "submit"
    /\ LET i == CHOOSE j \in 1..Len(notebook_paths) :
                   p_future[j] = "none"
                   /\ \A k \in 1..(j - 1) : p_future[k] # "none"
       IN /\ p_future' = [p_future EXCEPT ![i] = "queued"]
          /\ p_pc' = IF i = Len(notebook_paths) THEN "collect" ELSE "submit"
    /\ UNCHANGED <<notebook_paths, p_max_workers, p_future_value,
                   parsed_notebooks, p_completed, p_result, notParse>>

\* A free pool thread takes the oldest queued task.
p_WorkerStart(i) ==
    /\ p_future[i] = "queued"
    /\ \A k \in 1..(i - 1) : p_future[k] # "queued"
    /\ Cardinality(P_Running) < p_max_workers
    /\ p_future' = [p_future EXCEPT ![i] = "running"]
    /\ UNCHANGED <<notebook_paths, p_max_workers, p_pc, p_future_value,
                   parsed_notebooks, p_completed, p_result, notParse>>

\* The task parse_notebook(path) ends.
p_WorkerFinish(i) ==
    /\ p_future[i] = "running"
    /\ LET r == parse_notebook(notebook_paths[i], FileContent(notebook_paths[i]))
       IN /\ p_future_value' = [p_future_value EXCEPT ![i] = r.value]
          /\ p_future' = [p_future EXCEPT
                            ![i] = IF r.raised THEN "raised" ELSE "finished"]
    /\ UNCHANGED <<notebook_paths, p_max_workers, p_pc, parsed_notebooks,
                   p_completed, p_result, notParse>>

\* Lines 346-354: one iteration of the as_completed loop.
p_Collect(i) ==
    /\ p_pc = "collect"
    /\ p_future[i] \in {"finished", "raised"}
    /\ \A k \in 1..Len(p_completed) : p_completed[k] # i
    /\ p_completed' = Append(p_completed, i)
    /\ parsed_notebooks' =
         IF p_future[i] = "finished" /\ p_future_value[i] # <<>>
         THEN Append(parsed_notebooks, p_future_value[i][1])
         ELSE parsed_notebooks
    /\ UNCHANGED <<notebook_paths, p_max_workers, p_pc, p_future,
                   p_future_value, p_result, notParse>>

HasSqlCells(nb) == nb.sql_cells # <<>>

\* Mutant: the filter on SQL content is missing.
p_Return_unfiltered ==
    /\ p_pc = "collect"
    /\ Len(p_completed) = Len(notebook_paths)
    /\ p_result' = parsed_notebooks
    /\ p_pc' = "done"
    /\ UNCHANGED <<notebook_paths, p_max_workers, p_future, p_future_value,
                   parsed_notebooks, p_completed, notParse>>

\* Lines 356-360: the filter and the return.
p_Return ==
    /\ p_pc = "collect"
    /\ Len(p_completed) = Len(notebook_paths)
    /\ p_result' = SelectSeq(parsed_notebooks, HasSqlCells)
    /\ p_pc' = "done"
    /\ UNCHANGED <<notebook_paths, p_max_workers, p_future, p_future_value,
                   parsed_notebooks, p_completed, notParse>>

p_Worker ==
    \E i \in 1..Len(notebook_paths) :
        p_WorkerStart(i) \/ p_WorkerFinish(i)

p_AsCompleted == \E i \in 1..Len(notebook_paths) : p_Collect(i)

NextParse ==
    \/ p_Start
    \/ p_Submit
    \/ p_Worker
    \/ p_AsCompleted
    \/ p_Return

SpecParse == InitParse /\ [][NextParse]_vars

FileOf(i) == FileContent(notebook_paths[i])

\* The files the claim names as giving a null result.
IsUndecodable(i) ==
    \/ FileOf(i).top \in {"unreadable", "empty", "badjson", "list"}
    \/ /\ notebook_paths[i].ext # ".ipynb"
       /\ \E k \in 1..Len(FileOf(i).paragraphs) :
             FileOf(i).paragraphs[k].text = NullSource

\* C9: parse_notebook never raises; it returns null for a file that cannot
\* be read, is empty, is not JSON, is a top-level list or (paragraph dialect)
\* has a paragraph with null text, and otherwise a ParsedNotebook whose
\* dialect is jupyter for a path ending in .ipynb and zeppelin otherwise.
C9_ParseNeverRaises ==
    \A i \in 1..Len(notebook_paths) :
        /\ p_future[i] # "raised"
        /\ p_future[i] = "finished" =>
              IF IsUndecodable(i)
              THEN p_future_value[i] = <<>>
              ELSE /\ Len(p_future_value[i]) = 1
                   /\ p_future_value[i][1].notebook_path = notebook_paths[i]
                   /\ p_future_value[i][1].notebook_type =
                        IF notebook_paths[i].ext = ".ipynb"
                        THEN "jupyter" ELSE "zeppelin"

C9_Witness ==
    /\ Len(notebook_paths) = 3
    /\ \A i \in 1..3 : p_future[i] = "finished"
    /\ notebook_paths[1].name = "c"
    /\ p_future_value[1] = <<>>
    /\ notebook_paths[2].name = "e"
    /\ p_future_value[2] # <<>>
    /\ notebook_paths[3].name = "f"
    /\ p_future_value[3] = <<>>

\* The discovered paths whose parse gave a notebook with an SQL cell.
SqlNotebookPaths ==
    { notebook_paths[i] : i \in
        { j \in 1..Len(notebook_paths) :
            /\ p_future[j] = "finished"
            /\ p_future_value[j] # <<>>
            /\ \E c \in 1..Len(p_future_value[j][1].cells) :
                  /\ p_future_value[j][1].cells[c].cell_type = "code"
                  /\ _contains_sql(p_future_value[j][1].cells[c].source) } }

\* C10: whatever the worker count and the completion order, the result of
\* parse_notebooks_parallel holds exactly the discovered notebooks that
\* parsed and have an SQL cell, each once; a failed file excludes itself only.
C10_ParallelParseResult ==
    p_pc = "done" =>
        /\ { p_result[k].notebook_path : k \in 1..Len(p_result) } = SqlNotebookPaths
        /\ Len(p_result) = Cardinality(SqlNotebookPaths)
        /\ \A k \in 1..Len(p_result) :
              /\ p_result[k].sql_cells # <<>>
              /\ \E i \in 1..Len(notebook_paths) :
                    p_future_value[i] = <<p_result[k]>>

C10_Witness ==
    /\ p_pc = "done"
    /\ p_max_workers = 2
    /\ Len(notebook_paths) = 3
    /\ notebook_paths[1].name = "a"
    /\ notebook_paths[2].name = "b"
    /\ notebook_paths[3].name = "c"
    /\ p_completed = <<2, 3, 1>>
    /\ Len(p_result) = 1
    /\ p_result[1].notebook_path.name = "a"

(***************************************************************************)
(* QueryEngine.generate_sql.  A confidence is the exact decimal num/den;   *)
(* an SQL text is a sequence of tokens.                                    *)
(***************************************************************************)
max_similar == 5
MaxBody == 2
MaxConfLen == 2

Conf(n, dn) == [num |-> n, den |-> dn]

RECURSIVE Pow10(_)
Pow10(n) == IF n = 0 THEN 1 ELSE 10 * Pow10(n - 1)

DigitValue(c) ==
    CASE c = "0" -> 0 [] c = "1" -> 1 [] c = "2" -> 2 [] c = "3" -> 3
      [] c = "4" -> 4 [] c = "5" -> 5 [] c = "6" -> 6 [] c = "7" -> 7
      [] c = "8" -> 8 [] c = "9" -> 9

RECURSIVE DigitsValue(_)
DigitsValue(t) ==
    IF t = <<>> THEN 0
    ELSE DigitsValue(SubSeq(t, 1, Len(t) - 1)) * 10 + DigitValue(t[Len(t)])

IsDigit(c) == c # "."

\* float(s) for s matching [0-9.]+ : <<>> stands for ValueError.
Float(t) ==
    LET dots == { k \in 1..Len(t) : t[k] = "." }
        digits == SelectSeq(t, IsDigit)
    IN IF Cardinality(dots) > 1 \/ digits = <<>>
       THEN <<>>
       ELSE IF dots = {}
            THEN <<Conf(DigitsValue(digits), 1)>>
            ELSE LET dot == CHOOSE k \in dots : TRUE
                 IN <<Conf(DigitsValue(digits), Pow10(Len(t) - dot))>>

\* ' '.join(sql.split())
RECURSIVE CollapseSpaces(_)
CollapseSpaces(t) ==
    IF t = <<>> THEN <<>>
    ELSE IF IsSpace(Head(t))
         THEN IF LStrip(t) = <<>> THEN <<>>
              ELSE <<" ">> \o CollapseSpaces(LStrip(t))
         ELSE <<Head(t)>> \o CollapseSpaces(Tail(t))

SplitJoin(t) == CollapseSpaces(Strip(t))

\* sql.rstrip(';')
RECURSIVE RStripSemicolons(_)
RStripSemicolons(t) ==
    IF t # <<>> /\ t[Len(t)] = ";"
    THEN RStripSemicolons(SubSeq(t, 1, Len(t) - 1))
    ELSE t

\* Mutant: the guard for an empty SQL text is missing.
_clean_generated_sql_unguarded(sql) == RStripSemicolons(SplitJoin(sql)) \o <<";">>

_clean_generated_sql(sql) ==
    IF sql = <<>> THEN <<>> ELSE RStripSemicolons(SplitJoin(sql)) \o <<";">>

\* Lines 286-299: the text of the fenced block the patterns capture.  The
\* response holds at most one fenced block: labelled "SQL Query:", tagged
\* sql, or bare (which must begin with SELECT).
ExtractSql(resp) ==
    CASE resp.block = "labeled" -> Strip(resp.body)
      [] resp.block = "tagged" -> Strip(resp.body)
      [] resp.block = "bare" ->
           IF Strip(resp.body) # <<>> /\ Head(Strip(resp.body)) = "SELECT"
           THEN Strip(resp.body)
           ELSE <<>>
      [] OTHER -> <<>>

ExplanationOf(resp) ==
    CASE resp.expl = "text" -> "explanation"
      [] resp.expl = "empty" -> ""
      [] OTHER -> "raw response"

\* The body of the try block of _parse_claude_response; raised stands for
\* the ValueError of float().
ParseBody(resp) ==
    IF resp.conf # <<>> /\ Float(resp.conf) = <<>>
    THEN [raised |-> TRUE, sql_query |-> <<>>, confidence |-> Conf(0, 1),
          explanation |-> ""]
    ELSE [raised |-> FALSE,
          sql_query |-> _clean_generated_sql(ExtractSql(resp)),
          confidence |-> IF resp.conf = <<>> THEN Conf(8, 10)
                         ELSE Float(resp.conf)[1],
          explanation |-> ExplanationOf(resp)]

_parse_claude_response(resp) ==
    IF ParseBody(resp).raised
    THEN [raised |-> FALSE, sql_query |-> <<>>, confidence |-> Conf(0, 1),
          explanation |-> "raw response"]
    ELSE ParseBody(resp)

\* outcome is <<>> when invoke_model raises, else <<response>>.
_generate_sql_with_claude(outcome) ==
    IF outcome = <<>>
    THEN [raised |-> FALSE, sql_query |-> <<>>, confidence |-> Conf(0, 1),
          explanation |-> "Error generating SQL"]
    ELSE _parse_claude_response(outcome[1])

_create_error_result(error_message) ==
    [sql_query |-> <<>>,
     confidence |-> Conf(0, 1),
     explanation |-> error_message,
     similar_queries |-> <<>>,
     schema_context |-> ""]

\* One entry of the citation list, lines 355-363; a missing sql_query or
\* context reads as the empty text (source.get with default '').
Citation(doc) ==
    [rank |-> doc.rank,
     sql_query |-> IF doc.has_sql_query THEN doc.sql_query ELSE <<>>,
     similarity_score |-> doc.score,
     notebook_path |-> doc.notebook_path,
     context_before |-> doc.context_before,
     context_after |-> doc.context_after]

_format_similar_queries(docs) == MapCells(Citation, docs)

BodyTokens == {"SELECT", " ", ";"}
ConfTokens == {"0", "9", "."}

Responses ==
    [block : {"none", "labeled", "tagged", "bare"},
     body : SeqsUpTo(BodyTokens, MaxBody),
     conf : SeqsUpTo(ConfTokens, MaxConfLen),
     expl : {"absent", "empty", "text"}]

\* n hits in rank order; the hit at position bad (if any) has no sql_query.
\* Scores fall with the rank; every hit comes from a notebook of its own;
\* hits 1 and 3 carry a context_before, hits 1 and 2 a context_after.
Hits(n, bad) ==
    [k \in 1..n |->
        [rank |-> k,
         has_sql_query |-> (k # bad),
         sql_query |-> <<"sql", k>>,
         score |-> 1000 - 100 * k,
         notebook_path |-> <<"notebook", k>>,
         context_before |-> IF k \in {1, 3} THEN <<"before", k>> ELSE <<>>,
         context_after |-> IF k \in {1, 2} THEN <<"after", k>> ELSE <<>>]]

InitQuery ==
    /\ q_pc = "embed"
    /\ hybrid_search \in BOOLEAN
    /\ q_calls = <<>>
    /\ similar_docs = <<>>
    /\ schema_context = ""
    /\ business_context = ""
    /\ rag_context = <<>>
    /\ response = <<>>
    /\ q_result = "unset"
    /\ q_raised = FALSE
    /\ IdleEmbed
    /\ IdleBatch
    /\ IdleParse
    /\ IdleBuild
    /\ IdleExtract
    /\ IdleValidate
    /\ IdleResponse
    /\ IdleAnalyze
    /\ IdleMine
    /\ IdleDetect
    /\ IdleCells
    /\ IdleHybrid
    /\ IdleRate
    /\ IdleSequence
    /\ IdleFormat
    /\ IdleDocs
    /\ IdleAdditive

Called(op, outcome) == q_calls' = Append(q_calls, [op |-> op, outcome |-> outcome])

q_Finish(result) ==
    /\ q_result' = result
    /\ q_pc' = "done"

\* Lines 64-68.  The embedding pipeline gives a vector, or None after a
\* provider failure.
q_Embed ==
    /\ q_pc = "embed"
    /\ \E o \in {"vector", "none", "raises"} :
         /\ Called("embedding", o)
         /\ IF o = "vector"
            THEN q_pc' = "search" /\ UNCHANGED q_result
            ELSE q_Finish(_create_error_result("Failed to generate query embedding"))
    /\ UNCHANGED <<hybrid_search, similar_docs, schema_context, business_context,
                   rag_context, response, q_raised, notQuery>>

\* Mutant: an empty search result does not end the call.
q_Search_continues ==
    /\ q_pc = "search"
    /\ LET op == IF hybrid_search THEN "hybrid_search" ELSE "search_similar" IN
       \/ /\ Called(op, "raises")
          /\ similar_docs' = <<>>
          /\ q_pc' = "schema" /\ UNCHANGED q_result
       \/ \E n \in 0..max_similar, bad \in 0..max_similar :
            /\ bad <= n
            /\ Called(op, IF n = 0 THEN "no_hits" ELSE "hits")
            /\ similar_docs' = Hits(n, bad)
            /\ q_pc' = "schema" /\ UNCHANGED q_result
    /\ UNCHANGED <<hybrid_search, schema_context, business_context, rag_context,
                   response, q_raised, notQuery>>

\* Lines 70-85.  hybrid_search and search_similar return [] when the index
\* client raises.
q_Search ==
    /\ q_pc = "search"
    /\ LET op == IF hybrid_search THEN "hybrid_search" ELSE "search_similar" IN
       \/ /\ Called(op, "raises")
          /\ similar_docs' = <<>>
          /\ q_Finish(_create_error_result("No similar queries found"))
       \/ \E n \in 0..max_similar, bad \in 0..max_similar :
            /\ bad <= n
            /\ Called(op, IF n = 0 THEN "no_hits" ELSE "hits")
            /\ similar_docs' = Hits(n, bad)
            /\ IF n = 0
               THEN q_Finish(_create_error_result("No similar queries found"))
               ELSE q_pc' = "schema" /\ UNCHANGED q_result
    /\ UNCHANGED <<hybrid_search, schema_context, business_context, rag_context,
                   response, q_raised, notQuery>>

\* What _get_schema_context / _get_business_patterns make of a get_document
\* outcome: the content of the document, "" when there is none.
DigestContent(o, content) == IF o = "doc" THEN content ELSE ""

DigestOutcomes == {"doc", "doc_without_content", "not_found", "raises"}

\* Mutant: a schema digest that cannot be read ends the call with an error.
q_Schema_fatal ==
    /\ q_pc = "schema"
    /\ \E o \in DigestOutcomes :
         /\ Called("get_document:schema_metadata", o)
         /\ schema_context' = DigestContent(o, "schema digest")
         /\ IF o \in {"not_found", "raises"}
            THEN q_Finish(_create_error_result("No schema metadata found"))
            ELSE q_pc' = "patterns" /\ UNCHANGED q_result
    /\ UNCHANGED <<hybrid_search, similar_docs, business_context, rag_context,
                   response, q_raised, notQuery>>

\* Line 88.
q_Schema ==
    /\ q_pc = "schema"
    /\ \E o \in DigestOutcomes :
         /\ Called("get_document:schema_metadata", o)
         /\ schema_context' = DigestContent(o, "schema digest")
    /\ q_pc' = "patterns"
    /\ UNCHANGED <<hybrid_search, similar_docs, business_context, rag_context,
                   response, q_result, q_raised, notQuery>>

\* Line 91.
q_Patterns ==
    /\ q_pc = "patterns"
    /\ \E o \in DigestOutcomes :
         /\ Called("get_document:business_patterns", o)
         /\ business_context' = DigestContent(o, "patterns digest")
    /\ q_pc' = "generate"
    /\ UNCHANGED <<hybrid_search, similar_docs, schema_context, rag_context,
                   response, q_result, q_raised, notQuery>>

\* Mutant: every retrieved document becomes an example.
Top3_all(docs) == docs

\* similar_docs[:3]
Top3(docs) == SubSeq(docs, 1, Min(3, Len(docs)))

\* _prepare_rag_context raises KeyError for a hit without sql_query.
PrepareRaises(docs) ==
    \E k \in 1..Len(Top3(docs)) : ~docs[k].has_sql_query

\* one line of context_parts: what it is, the example it belongs to (0 for
\* the digest sections) and the text or score it shows
Part(kind, example, shown) == [kind |-> kind, example |-> example, shown |-> shown]

\* lines 191-200: the lines of example i
ExampleParts(doc, i) ==
    <<Part("example", i, <<"score", doc.score>>)>>
    \o (IF doc.context_before # <<>>
        THEN <<Part("context", i, doc.context_before)>> ELSE <<>>)
    \o <<Part("sql", i, doc.sql_query)>>
    \o (IF doc.context_after # <<>>
        THEN <<Part("description", i, doc.context_after)>> ELSE <<>>)

RECURSIVE ExamplesFrom(_, _)
ExamplesFrom(docs, i) ==
    IF i > Len(docs) THEN <<>>
    ELSE ExampleParts(docs[i], i) \o ExamplesFrom(docs, i + 1)

\* context_parts of lines 176-200, in the order of the appends
context_parts(docs, schema, business) ==
    (IF schema # ""
     THEN <<Part("schema_header", 0, <<>>), Part("schema", 0, <<schema>>)>>
     ELSE <<>>)
    \o (IF business # ""
        THEN <<Part("patterns_header", 0, <<>>), Part("patterns", 0, <<business>>)>>
        ELSE <<>>)
    \o (IF docs # <<>>
        THEN <<Part("examples_header", 0, <<>>)>> \o ExamplesFrom(Top3(docs), 1)
        ELSE <<>>)

_prepare_rag_context(docs, schema, business) ==
    [schema |-> schema # "",
     patterns |-> business # "",
     examples |-> MapCells(Citation, Top3(docs)),
     parts |-> context_parts(docs, schema, business)]

\* Lines 93-126: prompt, generation call, parsing, result.
q_Generate ==
    /\ q_pc = "generate"
    /\ IF PrepareRaises(similar_docs)
       THEN /\ q_Finish(_create_error_result("Error: 'sql_query'"))
            /\ UNCHANGED <<rag_context, response, q_calls>>
       ELSE /\ rag_context' =
                 _prepare_rag_context(similar_docs, schema_context, business_context)
            /\ \E o \in {<<>>} \cup { <<r>> : r \in Responses } :
                 /\ response' = o
                 /\ Called("invoke_model", IF o = <<>> THEN "raises" ELSE "text")
                 /\ LET g == _generate_sql_with_claude(o) IN
                    IF g.sql_query = <<>>
                    THEN q_Finish(_create_error_result("Failed to generate SQL"))
                    ELSE q_Finish([sql_query |-> g.sql_query,
                                   confidence |-> g.confidence,
                                   explanation |-> g.explanation,
                                   similar_queries |->
                                       _format_similar_queries(similar_docs),
                                   schema_context |-> schema_context])
    /\ UNCHANGED <<hybrid_search, similar_docs, schema_context, business_context,
                   q_raised, notQuery>>

NextQuery ==
    \/ q_Embed
    \/ q_Search
    \/ q_Schema
    \/ q_Patterns
    \/ q_Generate

SpecQuery == InitQuery /\ [][NextQuery]_vars

OutcomeOf(op) ==
    { q_calls[k].outcome : k \in { j \in 1..Len(q_calls) : q_calls[j].op = op } }

IsNotSpace(c) == ~IsSpace(c)

\* The response has no fenced block with SQL in it.
NoSqlBlock(resp) ==
    LET words == SelectSeq(resp.body, IsNotSpace) IN
    \/ resp.block = "none"
    \/ words = <<>>
    \/ resp.block = "bare" /\ words[1] # "SELECT"

QueryFailed ==
    \/ OutcomeOf("embedding") \cap {"none", "raises"} # {}
    \/ OutcomeOf("hybrid_search") \cap {"no_hits", "raises"} # {}
    \/ OutcomeOf("search_similar") \cap {"no_hits", "raises"} # {}
    \/ OutcomeOf("invoke_model") = {"raises"}
    \/ response # <<>> /\ NoSqlBlock(response[1])

\* C1: generate_sql never raises and always returns an SQLResult; when the
\* embedding failed, the search gave no hit, the generation call failed or
\* no SQL was extracted, the result has empty SQL, confidence 0.0, no
\* similar queries and a non-empty explanation.
C1_NeverRaises ==
    q_pc = "done" =>
        /\ ~q_raised
        /\ DOMAIN q_result =
             {"sql_query", "confidence", "explanation", "similar_queries",
              "schema_context"}
        /\ QueryFailed =>
             /\ q_result.sql_query = <<>>
             /\ q_result.confidence.num = 0
             /\ q_result.similar_queries = <<>>
             /\ q_result.explanation # ""

C1_Witness ==
    /\ q_pc = "done"
    /\ Len(similar_docs) = 2
    /\ response # <<>>
    /\ response[1].block = "bare"
    /\ response[1].body = <<";", "SELECT">>
    /\ response[1].conf = <<"9">>
    /\ q_result.sql_query = <<>>
    /\ q_result.explanation = "Failed to generate SQL"

\* C2: the confidence of every SQLResult returned by generate_sql lies
\* within [0, 1], whatever the generation model answered.
C2_ConfidenceInUnitInterval ==
    q_pc = "done" =>
        /\ 0 <= q_result.confidence.num
        /\ q_result.confidence.num <= q_result.confidence.den


\* positions of q_calls at which op was called
CallsOf(op) == { k \in 1..Len(q_calls) : q_calls[k].op = op }

SearchCalls == CallsOf("hybrid_search") \cup CallsOf("search_similar")

DigestCalls ==
    CallsOf("get_document:schema_metadata")
        \cup CallsOf("get_document:business_patterns")

\* C23: generate_sql short-circuits in pipeline order.  After a failed
\* embedding no search, digest fetch or generation call is made; after a
\* search without hits no digest fetch or generation call is made; the
\* generation model is called at most once, and only after an embedding
\* that succeeded and a search that returned hits.
C23_ShortCircuit ==
    /\ (\E k \in CallsOf("embedding") : q_calls[k].outcome # "vector")
          => Len(q_calls) = 1
    /\ (\E k \in SearchCalls : q_calls[k].outcome # "hits")
          => /\ DigestCalls = {}
             /\ CallsOf("invoke_model") = {}
    /\ Cardinality(CallsOf("invoke_model")) <= 1
    /\ \A g \in CallsOf("invoke_model") :
          /\ \E e \in CallsOf("embedding") :
                e < g /\ q_calls[e].outcome = "vector"
          /\ \E h \in SearchCalls : h < g /\ q_calls[h].outcome = "hits"

\* a question whose search found nothing: the call ended after two
\* collaborator calls
C23_Witness ==
    /\ q_pc = "done"
    /\ Len(q_calls) = 2
    /\ q_calls[1] = [op |-> "embedding", outcome |-> "vector"]
    /\ q_calls[2].outcome = "no_hits"
    /\ q_result.explanation = "No similar queries found"

\* the digest document id was fetched and could not be read
DigestMissing(id) ==
    \E k \in CallsOf("get_document:" \o id) :
        q_calls[k].outcome \in {"not_found", "raises"}

\* the call returned a result with SQL in it
QuerySucceeded == q_pc = "done" /\ q_result.sql_query # <<>>

\* C24: a digest document that is missing or cannot be read never fails
\* the query.  With retrieved documents the prompt can be built from, the
\* generation model is still called once, the prompt section of a missing
\* digest is left out, and a successful result after a missing schema
\* digest carries the empty schema_context.
C24_MissingDigestIsSoft ==
    (q_pc = "done" /\ ~PrepareRaises(similar_docs)) =>
        /\ (DigestMissing("schema_metadata") \/ DigestMissing("business_patterns"))
              => Cardinality(CallsOf("invoke_model")) = 1
        /\ DigestMissing("schema_metadata") =>
              /\ ~rag_context.schema
              /\ QuerySucceeded => q_result.schema_context = ""
        /\ DigestMissing("business_patterns") => ~rag_context.patterns

\* both digests unreadable, one raising and one absent, and SQL returned
C24_Witness ==
    /\ QuerySucceeded
    /\ \E k \in CallsOf("get_document:schema_metadata") :
          q_calls[k].outcome = "raises"
    /\ \E k \in CallsOf("get_document:business_patterns") :
          q_calls[k].outcome = "not_found"
    /\ q_result.schema_context = ""
    /\ rag_context.examples # <<>>
    /\ q_result.similar_queries # <<>>

\* positions of the prompt lines of one kind
PartsOf(parts, kinds) == { k \in 1..Len(parts) : parts[k].kind \in kinds }

IsExampleHeader(part) == part.kind = "example"

\* C25: for n retrieved documents, 1 <= n <= max_similar, the prompt holds
\* exactly min(3, n) examples, the first documents in rank order, each with
\* its score and its SQL, after the schema section and the business-pattern
\* section in that order; the similar_queries of a successful result hold
\* exactly n citations in rank order, each with the score and the notebook
\* path of its document.
C25_ExamplesAndCitations ==
    (q_pc = "done" /\ CallsOf("invoke_model") # {}) =>
        \A n \in {Len(similar_docs)} :
        \A parts \in {rag_context.parts} :
        \A headers \in {SelectSeq(parts, IsExampleHeader)} :
            /\ n >= 1 /\ n <= max_similar
            /\ Len(headers) = Min(3, n)
            /\ \A i \in 1..Len(headers) :
                  /\ headers[i].example = i
                  /\ headers[i].shown = <<"score", similar_docs[i].score>>
                  /\ \E k \in PartsOf(parts, {"sql"}) :
                        /\ parts[k].example = i
                        /\ parts[k].shown = similar_docs[i].sql_query
            /\ \A a \in PartsOf(parts, {"schema_header", "schema"}) :
               \A b \in PartsOf(parts, {"patterns_header", "patterns"}) : a < b
            /\ \A b \in PartsOf(parts, {"schema_header", "schema",
                                        "patterns_header", "patterns"}) :
               \A c \in PartsOf(parts, {"examples_header", "example", "context",
                                        "sql", "description"}) : b < c
            /\ \A c, e \in PartsOf(parts, {"example", "context", "sql",
                                           "description"}) :
                  c < e => parts[c].example <= parts[e].example
            /\ QuerySucceeded =>
                  /\ Len(q_result.similar_queries) = n
                  /\ \A k \in 1..n :
                        /\ q_result.similar_queries[k].similarity_score =
                              similar_docs[k].score
                        /\ q_result.similar_queries[k].notebook_path =
                              similar_docs[k].notebook_path

\* five documents retrieved, both digests present: three examples in the
\* prompt, five citations in the result
C25_Witness ==
    /\ QuerySucceeded
    /\ Len(similar_docs) = max_similar
    /\ rag_context.schema
    /\ rag_context.patterns
    /\ Len(SelectSeq(rag_context.parts, IsExampleHeader)) = 3
    /\ Len(q_result.similar_queries) = max_similar

(***************************************************************************)
(* build_knowledge_base: the nine-stage pipeline that fills the index.    *)
(* The index is external and persistent: a build may find it absent, or   *)
(* present with documents of an earlier run.  Each call on the index      *)
(* client either succeeds or raises inside the client wrapper, which      *)
(* turns the exception into False / 0.                                     *)
(***************************************************************************)
MaxBuilds == 2
MaxTables == 1
MaxNotebooks == 2
MaxCells == 3
MaxExtracts == 4
batch_size == 2

\* f"sql_{i}"
SqlIds == <<"sql_0", "sql_1", "sql_2", "sql_3", "sql_4", "sql_5", "sql_6",
            "sql_7", "sql_8", "sql_9", "sql_10", "sql_11">>

DocId(i) == SqlIds[i + 1]

Ids(docs) == { d.id : d \in docs }

\* an index request with an explicit id replaces the document of that id
Put(docs, id, build) ==
    { d \in docs : d.id # id } \cup { [id |-> id, build |-> build] }

RECURSIVE PutAll(_, _, _)
PutAll(docs, ids, build) ==
    IF ids = {} THEN docs
    ELSE LET id == CHOOSE x \in ids : TRUE
         IN PutAll(Put(docs, id, build), ids \ {id}, build)

Request(op, arg, ok) == [op |-> op, arg |-> arg, ok |-> ok]

\* documents left by an earlier run
StaleDocs ==
    { [id |-> "sql_0", build |-> 0], [id |-> "sql_9", build |-> 0],
      [id |-> "business_patterns", build |-> 0] }

InitBuild ==
    /\ index_exists \in BOOLEAN
    /\ index_docs = IF index_exists THEN StaleDocs ELSE {}
    /\ index_ops = <<>>
    /\ kb_pc = "idle"
    /\ force_rebuild = FALSE
    /\ builds = 0
    /\ stages = <<>>
    /\ schema_metadata = 0
    /\ kb_notebooks = <<>>
    /\ sql_extracts = 0
    /\ documents = <<>>
    /\ batch_start = 0
    /\ indexed_count = 0
    /\ bulk_requests = <<>>
    /\ stored = {}
    /\ kb_result = "unset"
    /\ kb_raised = FALSE
    /\ created = "unset"
    /\ existed_before = FALSE
    /\ docs_before = {}
    /\ IdleEmbed
    /\ IdleBatch
    /\ IdleParse
    /\ IdleQuery
    /\ IdleExtract
    /\ IdleValidate
    /\ IdleResponse
    /\ IdleAnalyze
    /\ IdleMine
    /\ IdleDetect
    /\ IdleCells
    /\ IdleHybrid
    /\ IdleRate
    /\ IdleSequence
    /\ IdleFormat
    /\ IdleDocs
    /\ IdleAdditive

\* a caller invokes build_knowledge_base(force_rebuild)
kb_Begin ==
    /\ kb_pc = "idle"
    /\ builds < MaxBuilds
    /\ \E force \in BOOLEAN : force_rebuild' = force
    /\ builds' = builds + 1
    /\ kb_pc' = "create_index"
    /\ stages' = <<>>
    /\ index_ops' = <<>>
    /\ schema_metadata' = 0
    /\ kb_notebooks' = <<>>
    /\ sql_extracts' = 0
    /\ documents' = <<>>
    /\ batch_start' = 0
    /\ indexed_count' = 0
    /\ bulk_requests' = <<>>
    /\ stored' = {}
    /\ kb_result' = "unset"
    /\ created' = "unset"
    /\ existed_before' = index_exists
    /\ docs_before' = Ids(index_docs)
    /\ UNCHANGED <<index_exists, index_docs, kb_raised>>
    /\ UNCHANGED notBuild

\* return / except of build_knowledge_base
kb_Finish(result) ==
    /\ kb_pc' = "idle"
    /\ kb_result' = result
    /\ kb_raised' = FALSE

\* the build goes on to its next stage
kb_Continue(stage) ==
    /\ kb_pc' = stage
    /\ UNCHANGED <<kb_result, kb_raised>>

callVars == <<force_rebuild, builds, existed_before, docs_before>>

IndexUntouched(ret, ops) ==
    [ret |-> ret, exists |-> index_exists, docs |-> index_docs, ops |-> ops]

\* client.indices.create, reached only when the index is absent
IndexCreate(ops, exists, docs, fails) ==
    IF fails = "create"
    THEN [ret |-> "False", exists |-> exists, docs |-> docs,
          ops |-> ops \o <<Request("create", "", FALSE)>>]
    ELSE [ret |-> "True", exists |-> TRUE, docs |-> {},
          ops |-> ops \o <<Request("create", "", TRUE)>>]

ClientCalls == {"none", "exists", "delete", "create"}

\* create_index without the early return for an existing index
create_index_recreates(force_recreate, fails) ==
    IF fails = "exists"
    THEN IndexUntouched("False", <<Request("exists", "", FALSE)>>)
    ELSE IF index_exists
    THEN IF fails = "delete"
         THEN IndexUntouched("False", <<Request("exists", "", TRUE),
                                        Request("delete", "", FALSE)>>)
         ELSE IndexCreate(<<Request("exists", "", TRUE),
                            Request("delete", "", TRUE)>>, FALSE, {}, fails)
    ELSE IndexCreate(<<Request("exists", "", TRUE)>>, FALSE, {}, fails)

\* OpenSearchClient.create_index; fails names the client call that raises
create_index(force_recreate, fails) ==
    IF fails = "exists"
    THEN IndexUntouched("False", <<Request("exists", "", FALSE)>>)
    ELSE IF index_exists
    THEN IF force_recreate
         THEN IF fails = "delete"
              THEN IndexUntouched("False", <<Request("exists", "", TRUE),
                                             Request("delete", "", FALSE)>>)
              ELSE IndexCreate(<<Request("exists", "", TRUE),
                                 Request("delete", "", TRUE)>>, FALSE, {}, fails)
         ELSE IndexUntouched("True", <<Request("exists", "", TRUE)>>)
    ELSE IndexCreate(<<Request("exists", "", TRUE)>>, FALSE, {}, fails)

\* Step 1
kb_CreateIndex ==
    /\ kb_pc = "create_index"
    /\ stages' = Append(stages, "create_index")
    /\ \E fails \in ClientCalls :
         LET r == create_index(force_rebuild, fails)
         IN /\ index_exists' = r.exists
            /\ index_docs' = r.docs
            /\ index_ops' = index_ops \o r.ops
            /\ created' = r.ret
            /\ IF r.ret = "False" THEN kb_Finish("False")
               ELSE kb_Continue("catalog")
    /\ UNCHANGED <<schema_metadata, kb_notebooks, sql_extracts, documents,
                   batch_start, indexed_count, stored>>
    /\ UNCHANGED callVars
    /\ UNCHANGED bulk_requests
    /\ UNCHANGED notBuild

\* Step 2: extract_metadata returns a table map, possibly empty
kb_Catalog ==
    /\ kb_pc = "catalog"
    /\ stages' = Append(stages, "catalog")
    /\ \E tables \in 0..MaxTables : schema_metadata' = tables
    /\ kb_Continue("parse")
    /\ UNCHANGED <<kb_notebooks, sql_extracts, documents, batch_start,
                   indexed_count, stored, created>>
    /\ UNCHANGED indexVars
    /\ UNCHANGED callVars
    /\ UNCHANGED bulk_requests
    /\ UNCHANGED notBuild

\* extract_sql_with_context: one extract per SQL cell of each notebook
RECURSIVE extract_sql_with_context(_)
extract_sql_with_context(nbs) ==
    IF nbs = <<>> THEN 0
    ELSE Head(nbs) + extract_sql_with_context(Tail(nbs))

\* what parse_notebooks_parallel can return: notebooks with >= 1 SQL cell
NotebookLists ==
    { nbs \in SeqsUpTo(1..MaxCells, MaxNotebooks) :
        extract_sql_with_context(nbs) <= MaxExtracts }

\* Step 3 going on with an empty notebook list
kb_Parse_nonfatal ==
    /\ kb_pc = "parse"
    /\ \/ /\ \E nbs \in NotebookLists : kb_notebooks' = nbs
          /\ stages' = Append(stages, "parse")
          /\ kb_Continue("extract")
       \/ /\ kb_notebooks' = <<>>
          /\ stages' = stages \o <<"parse", "except">>
          /\ kb_Finish("False")
    /\ UNCHANGED <<schema_metadata, sql_extracts, documents, batch_start,
                   indexed_count, stored, created>>
    /\ UNCHANGED indexVars
    /\ UNCHANGED callVars
    /\ UNCHANGED bulk_requests
    /\ UNCHANGED notBuild

\* Step 3: the parser returns its list, or discovery raises (S3 listing
\* catches ClientError only) and the handler of the build returns False
kb_Parse ==
    /\ kb_pc = "parse"
    /\ \/ /\ \E nbs \in NotebookLists : kb_notebooks' = nbs
          /\ stages' = Append(stages, "parse")
          /\ IF kb_notebooks' = <<>> THEN kb_Finish("False")
             ELSE kb_Continue("extract")
       \/ /\ kb_notebooks' = <<>>
          /\ stages' = stages \o <<"parse", "except">>
          /\ kb_Finish("False")
    /\ UNCHANGED <<schema_metadata, sql_extracts, documents, batch_start,
                   indexed_count, stored, created>>
    /\ UNCHANGED indexVars
    /\ UNCHANGED callVars
    /\ UNCHANGED bulk_requests
    /\ UNCHANGED notBuild

\* Step 4
kb_Extract ==
    /\ kb_pc = "extract"
    /\ stages' = Append(stages, "extract")
    /\ sql_extracts' = extract_sql_with_context(kb_notebooks)
    /\ IF sql_extracts' = 0 THEN kb_Finish("False")
       ELSE kb_Continue("analyze")
    /\ UNCHANGED <<schema_metadata, kb_notebooks, documents, batch_start,
                   indexed_count, stored, created>>
    /\ UNCHANGED indexVars
    /\ UNCHANGED callVars
    /\ UNCHANGED bulk_requests
    /\ UNCHANGED notBuild

\* Steps 5 and 6: analysis and enrichment keep one record per extract
kb_Analyze ==
    /\ kb_pc = "analyze"
    /\ stages' = Append(stages, "analyze")
    /\ kb_Continue("embed")
    /\ UNCHANGED <<schema_metadata, kb_notebooks, sql_extracts, documents,
                   batch_start, indexed_count, stored, created>>
    /\ UNCHANGED indexVars
    /\ UNCHANGED callVars
    /\ UNCHANGED bulk_requests
    /\ UNCHANGED notBuild

\* generate_embeddings_for_knowledge_base: extract i with an embedding
\* becomes the document of id sql_<i>; the others are skipped
RECURSIVE generate_embeddings_for_knowledge_base(_, _)
generate_embeddings_for_knowledge_base(embs, i) ==
    IF i >= Len(embs) THEN <<>>
    ELSE (IF embs[i + 1] # None THEN <<i>> ELSE <<>>)
         \o generate_embeddings_for_knowledge_base(embs, i + 1)

\* Step 7
kb_Embed ==
    /\ kb_pc = "embed"
    /\ stages' = Append(stages, "embed")
    /\ \E embs \in [1..sql_extracts -> {"vec", None}] :
         documents' = generate_embeddings_for_knowledge_base(embs, 0)
    /\ IF documents' = <<>> THEN kb_Finish("False")
       ELSE kb_Continue("index")
    /\ UNCHANGED <<schema_metadata, kb_notebooks, sql_extracts, batch_start,
                   indexed_count, stored, created>>
    /\ UNCHANGED indexVars
    /\ UNCHANGED callVars
    /\ UNCHANGED bulk_requests
    /\ UNCHANGED notBuild

\* Mutant: a slice that runs one document into the next batch.
Batch_overlapping(docs, i) == SubSeq(docs, i + 1, Min(i + batch_size + 1, Len(docs)))

\* documents[i:i + batch_size]
Batch(docs, i) == SubSeq(docs, i + 1, Min(i + batch_size, Len(docs)))

\* bulk_index_documents: outcome <<>> when client.bulk raises, else <<ok>>
\* with ok the documents of the batch answered with status 200 or 201
bulk_index_documents(batch, outcome) ==
    IF outcome = <<>>
    THEN [count |-> 0, docs |-> index_docs,
          ops |-> <<Request("bulk", DocId(batch[1]), FALSE)>>]
    ELSE [count |-> Cardinality(outcome[1]),
          docs |-> PutAll(index_docs, { DocId(i) : i \in outcome[1] }, builds),
          ops |-> <<Request("bulk", DocId(batch[1]), TRUE)>>]

BulkOutcomes(batch) == {<<>>} \cup { <<ok>> : ok \in SUBSET Range(batch) }

\* Step 8: one iteration of _index_documents_in_batches; the last one
\* returns total_indexed to the build
kb_IndexBatch ==
    /\ kb_pc = "index"
    /\ stages' = IF batch_start = 0 THEN Append(stages, "index") ELSE stages
    /\ \E outcome \in BulkOutcomes(Batch(documents, batch_start)) :
         LET r == bulk_index_documents(Batch(documents, batch_start), outcome)
         IN /\ index_docs' = r.docs
            /\ index_ops' = index_ops \o r.ops
            /\ indexed_count' = indexed_count + r.count
            /\ bulk_requests' =
                 Append(bulk_requests,
                        [batch |-> Batch(documents, batch_start),
                         count |-> r.count])
    /\ batch_start' = batch_start + batch_size
    /\ IF batch_start' < Len(documents) THEN kb_Continue("index")
       ELSE IF indexed_count' = 0 THEN kb_Finish("False")
       ELSE kb_Continue("store_schema")
    /\ UNCHANGED <<schema_metadata, kb_notebooks, sql_extracts, documents,
                   stored, created, index_exists>>
    /\ UNCHANGED callVars
    /\ UNCHANGED notBuild

\* index_document: TRUE and the document written, or FALSE when
\* client.index raises
index_document(doc_id, ok) ==
    [ret |-> ok,
     docs |-> IF ok THEN Put(index_docs, doc_id, builds) ELSE index_docs,
     ops |-> <<Request("index", doc_id, ok)>>]

\* Step 9, first half of _store_metadata
kb_StoreSchema ==
    /\ kb_pc = "store_schema"
    /\ stages' = Append(stages, "store")
    /\ \E ok \in BOOLEAN :
         LET r == index_document("schema_metadata", ok)
         IN /\ index_docs' = r.docs
            /\ index_ops' = index_ops \o r.ops
            /\ stored' = IF r.ret THEN stored \cup {"schema_metadata"}
                         ELSE stored
    /\ kb_Continue("store_patterns")
    /\ UNCHANGED <<schema_metadata, kb_notebooks, sql_extracts, documents,
                   batch_start, indexed_count, created, index_exists>>
    /\ UNCHANGED callVars
    /\ UNCHANGED bulk_requests
    /\ UNCHANGED notBuild

\* Step 9, second half of _store_metadata, whose outcome the build does
\* not look at, and the return of the build
kb_StorePatterns ==
    /\ kb_pc = "store_patterns"
    /\ \E ok \in BOOLEAN :
         LET r == index_document("business_patterns", ok)
         IN /\ index_docs' = r.docs
            /\ index_ops' = index_ops \o r.ops
            /\ stored' = IF r.ret THEN stored \cup {"business_patterns"}
                         ELSE stored
    /\ kb_Finish("True")
    /\ UNCHANGED <<schema_metadata, kb_notebooks, sql_extracts, documents,
                   batch_start, indexed_count, created, index_exists, stages>>
    /\ UNCHANGED callVars
    /\ UNCHANGED bulk_requests
    /\ UNCHANGED notBuild

NextBuild ==
    \/ kb_Begin
    \/ kb_CreateIndex
    \/ kb_Catalog
    \/ kb_Parse
    \/ kb_Extract
    \/ kb_Analyze
    \/ kb_Embed
    \/ kb_IndexBatch
    \/ kb_StoreSchema
    \/ kb_StorePatterns

SpecBuild == InitBuild /\ [][NextBuild]_vars

BuildDone == kb_pc = "idle" /\ builds > 0

StageOrder == <<"create_index", "catalog", "parse", "extract", "analyze",
                "embed", "index", "store">>

StagesUpTo(stage) ==
    SubSeq(StageOrder, 1,
           CHOOSE k \in 1..Len(StageOrder) : StageOrder[k] = stage)

Ran(stage) == stage \in Range(stages)

Requested(op) == { k \in 1..Len(index_ops) : index_ops[k].op = op }

NothingWritten ==
    /\ { d \in index_docs : d.build = builds } = {}
    /\ Requested("bulk") = {}
    /\ Requested("index") = {}

FailedAt(stage) ==
    /\ kb_result = "False"
    /\ ~kb_raised
    /\ stages = StagesUpTo(stage)

NoNotebook == Ran("parse") /\ ~Ran("except") /\ kb_notebooks = <<>>
NoExtract == Ran("extract") /\ sql_extracts = 0
NoEmbedding == Ran("embed") /\ documents = <<>>
NothingIndexed == Ran("index") /\ indexed_count = 0

\* C3: a build that meets a missing prerequisite (index creation failed, no
\* notebook with SQL, no SQL extract, no document with an embedding, nothing
\* indexed) returns False without raising and stops at that stage; in the
\* first four cases it has written no document, bulk or digest.  A build
\* that meets none of them and no exception succeeds, whatever the catalog
\* returned, an empty table map included.
C3_MissingPrerequisiteFatalAndClean ==
    BuildDone =>
        /\ created = "False" => FailedAt("create_index") /\ NothingWritten
        /\ NoNotebook => FailedAt("parse") /\ NothingWritten
        /\ NoExtract => FailedAt("extract") /\ NothingWritten
        /\ NoEmbedding => FailedAt("embed") /\ NothingWritten
        /\ NothingIndexed => FailedAt("index")
        /\ ( /\ created = "True"
             /\ ~Ran("except")
             /\ ~NoNotebook
             /\ ~NoExtract
             /\ ~NoEmbedding
             /\ ~NothingIndexed ) => kb_result = "True"

\* a second build, on an index an earlier build filled, finds an empty
\* catalog and then no embedding for any of its three extracts
C3_Witness ==
    /\ BuildDone
    /\ builds = 2
    /\ \E d \in index_docs : d.build = 1
    /\ schema_metadata = 0
    /\ sql_extracts = 3
    /\ NoEmbedding
    /\ kb_result = "False"
    /\ stages = StagesUpTo("embed")

\* C4: a build returns True only if both digest documents, schema_metadata
\* and business_patterns, were persisted by it.
C4_SuccessOnlyIfDigestsPersisted ==
    BuildDone /\ kb_result = "True" =>
        /\ stored = {"schema_metadata", "business_patterns"}
        /\ \A id \in {"schema_metadata", "business_patterns"} :
             [id |-> id, build |-> builds] \in index_docs

\* C5: a build without force_rebuild on an index that exists requests no
\* index delete and no index create, create_index returns True once the
\* existence check has answered, and every document id that was in the
\* index when the build started is still there.
C5_NonForcedBuildKeepsIndex ==
    builds > 0 /\ ~force_rebuild /\ existed_before =>
        /\ Requested("delete") = {}
        /\ Requested("create") = {}
        /\ index_exists
        /\ docs_before \subseteq Ids(index_docs)
        /\ (created # "unset" /\ index_ops[1].ok) => created = "True"

\* two non-forced builds in a row on an index that held stale documents:
\* both wrote documents, and the stale id sql_9 is still present
C5_Witness ==
    /\ BuildDone
    /\ builds = 2
    /\ ~force_rebuild
    /\ existed_before
    /\ kb_result = "True"
    /\ "sql_9" \in docs_before
    /\ "sql_9" \in Ids(index_docs)
    /\ \E d \in index_docs : d.build = 1
    /\ \E d \in index_docs : d.build = 2

\* the batches of the bulk requests made so far, one after another
RECURSIVE Submitted(_)
Submitted(requests) ==
    IF requests = <<>> THEN <<>>
    ELSE Head(requests).batch \o Submitted(Tail(requests))

RECURSIVE SumCounts(_)
SumCounts(requests) ==
    IF requests = <<>> THEN 0
    ELSE Head(requests).count + SumCounts(Tail(requests))

IndexingOver == Ran("index") /\ batch_start >= Len(documents)

\* C26: _index_documents_in_batches hands every document to exactly one
\* bulk request, once, in consecutive batches of at most batch_size
\* documents in input order; a batch that indexed fewer documents than it
\* holds, or none, is not submitted again; the total returned is the sum of
\* the counts of the batches and lies between 0 and the number of
\* documents; the build goes on to success whenever the total is at least 1.
C26_BatchesOnceInOrder ==
    /\ Submitted(bulk_requests) =
          SubSeq(documents, 1, Min(batch_start, Len(documents)))
    /\ IndexingOver => Submitted(bulk_requests) = documents
    /\ \A k \in 1..Len(bulk_requests) :
          /\ Len(bulk_requests[k].batch) >= 1
          /\ Len(bulk_requests[k].batch) <= batch_size
          /\ bulk_requests[k].count >= 0
          /\ bulk_requests[k].count <= Len(bulk_requests[k].batch)
    /\ Cardinality(Requested("bulk")) = Len(bulk_requests)
    /\ indexed_count = SumCounts(bulk_requests)
    /\ indexed_count >= 0
    /\ indexed_count <= Len(documents)
    /\ (BuildDone /\ IndexingOver /\ indexed_count >= 1) => kb_result = "True"

\* three documents in two batches; the first batch indexed one of its two
\* documents, the second failed as a whole, and the build succeeded
C26_Witness ==
    /\ BuildDone
    /\ Len(documents) = 3
    /\ Len(bulk_requests) = 2
    /\ bulk_requests[1].count = 1
    /\ bulk_requests[2].count = 0
    /\ indexed_count = 1
    /\ kb_result = "True"

(***************************************************************************)
(* extract_sql_with_context: one extract per SQL cell, with the markdown  *)
(* cells around it.  A cell here carries the fields that decide whether   *)
(* two cells are equal (dataclass equality): type, source and execution   *)
(* count; 0 stands for a cell without execution count.                    *)
(***************************************************************************)
MaxNbCells == 4

Cell(type, source, execution_count) ==
    [cell_type |-> type, source |-> source, execution_count |-> execution_count]

CellPool ==
    { Cell("markdown", <<"x">>, 0), Cell("markdown", <<"y">>, 0),
      Cell("code", <<"SELECT", " ", "x">>, 0),
      Cell("code", <<"SELECT", " ", "x">>, 1),
      Cell("code", <<"x">>, 0) }

\* a ParsedNotebook as both dialect parsers build it
Notebook(cells) ==
    [cells |-> cells,
     sql_cells |-> SelectSeq(cells, IsSqlCell),
     markdown_cells |-> SelectSeq(cells, IsMarkdownCell)]

\* lists of one or two notebooks with at most MaxNbCells cells in all
NotebookInputs ==
    { <<Notebook(a)>> : a \in SeqsUpTo(CellPool, MaxNbCells) }
    \cup UNION { { <<Notebook(a), Notebook(b)>> :
                     a \in [1..k -> CellPool],
                     b \in SeqsUpTo(CellPool, MaxNbCells - k) } :
                 k \in 1..MaxNbCells }

\* ' '.join(parts)
RECURSIVE JoinSpace(_)
JoinSpace(parts) ==
    IF parts = <<>> THEN <<>>
    ELSE IF Len(parts) = 1 THEN Head(parts)
    ELSE Head(parts) \o <<" ">> \o JoinSpace(Tail(parts))

Max(a, b) == IF a > b THEN a ELSE b

\* sources of the markdown cells at positions from..to of cells, in order
RECURSIVE MarkdownSources(_, _, _)
MarkdownSources(cells, from, to) ==
    IF from > to THEN <<>>
    ELSE (IF cells[from].cell_type = "markdown" THEN <<cells[from].source>>
          ELSE <<>>) \o MarkdownSources(cells, from + 1, to)

\* the search loop of lines 379-383: the first cell equal to sql_cell,
\* 0 for the -1 of the code (positions here count from 1)
IndexOfEqual(cells, sql_cell) ==
    IF \E j \in 1..Len(cells) : cells[j] = sql_cell
    THEN CHOOSE j \in 1..Len(cells) :
            cells[j] = sql_cell /\ \A q \in 1..(j - 1) : cells[q] # sql_cell
    ELSE 0

\* the extract of one SQL cell, lines 374-406
ExtractOf(nb, notebook, sql_cell) ==
    LET sql_cell_index == IndexOfEqual(notebook.cells, sql_cell) IN
    [notebook |-> nb,
     sql_query |-> sql_cell.source,
     execution_count |-> sql_cell.execution_count,
     context_before |->
        IF sql_cell_index >= 1
        THEN JoinSpace(MarkdownSources(notebook.cells,
                                       Max(1, sql_cell_index - 3),
                                       sql_cell_index - 1))
        ELSE <<>>,
     context_after |->
        IF sql_cell_index >= 1
        THEN JoinSpace(MarkdownSources(notebook.cells, sql_cell_index + 1,
                                       Min(Len(notebook.cells),
                                           sql_cell_index + 3)))
        ELSE <<>>]

InitExtract ==
    /\ ex_notebooks \in NotebookInputs
    /\ ex_next = 0
    /\ ex_extracts = <<>>
    /\ IdleEmbed
    /\ IdleBatch
    /\ IdleParse
    /\ IdleQuery
    /\ IdleBuild
    /\ IdleValidate
    /\ IdleResponse
    /\ IdleAnalyze
    /\ IdleMine
    /\ IdleDetect
    /\ IdleCells
    /\ IdleHybrid
    /\ IdleRate
    /\ IdleSequence
    /\ IdleFormat
    /\ IdleDocs
    /\ IdleAdditive

\* one iteration of the loop over parsed_notebooks, line 373
ex_Notebook ==
    /\ ex_next < Len(ex_notebooks)
    /\ ex_next' = ex_next + 1
    /\ LET notebook == ex_notebooks[ex_next + 1]
           One(sql_cell) == ExtractOf(ex_next + 1, notebook, sql_cell)
       IN ex_extracts' = ex_extracts \o MapCells(One, notebook.sql_cells)
    /\ UNCHANGED ex_notebooks
    /\ UNCHANGED notExtract

NextExtract == ex_Notebook

SpecExtract == InitExtract /\ [][NextExtract]_vars

\* positions, in order, of the SQL cells of a cell sequence
RECURSIVE SqlPositions(_, _)
SqlPositions(cells, j) ==
    IF j > Len(cells) THEN <<>>
    ELSE (IF IsSqlCell(cells[j]) THEN <<j>> ELSE <<>>)
         \o SqlPositions(cells, j + 1)

ExtractsOf(n) ==
    LET OfN(e) == e.notebook = n IN SelectSeq(ex_extracts, OfN)

\* C11: every extract carries as context_before the space-joined sources of
\* the markdown cells among the up-to-3 cells right before its SQL cell and
\* as context_after those among the up-to-3 cells right after it.
C11_ContextWindow ==
    ex_next = Len(ex_notebooks) =>
        \A n \in 1..Len(ex_notebooks) :
            LET cells == ex_notebooks[n].cells
                at == SqlPositions(cells, 1)
            IN /\ Len(ExtractsOf(n)) = Len(at)
               /\ \A k \in 1..Len(at) :
                    /\ ExtractsOf(n)[k].sql_query = cells[at[k]].source
                    /\ ExtractsOf(n)[k].context_before =
                         JoinSpace(MarkdownSources(cells, Max(1, at[k] - 3),
                                                   at[k] - 1))
                    /\ ExtractsOf(n)[k].context_after =
                         JoinSpace(MarkdownSources(cells, at[k] + 1,
                                                   Min(Len(cells), at[k] + 3)))

\* the context the window rule gives for the cell at position at of cells
WindowBefore(cells, at) ==
    JoinSpace(MarkdownSources(cells, Max(1, at - 3), at - 1))

WindowAfter(cells, at) ==
    JoinSpace(MarkdownSources(cells, at + 1, Min(Len(cells), at + 3)))

\* C22: where a notebook holds two SQL cells equal in every field at
\* different positions, the extract of each of the two takes context_before
\* and context_after from the window around its own position.
C22_EqualCellsOwnContext ==
    ex_next = Len(ex_notebooks) =>
        \A n \in 1..Len(ex_notebooks) :
            LET cells == ex_notebooks[n].cells
                at == SqlPositions(cells, 1)
            IN \A k, l \in 1..Len(at) :
                  (k < l /\ cells[at[k]] = cells[at[l]]) =>
                      \A m \in {k, l} :
                          /\ ExtractsOf(n)[m].context_before =
                                WindowBefore(cells, at[m])
                          /\ ExtractsOf(n)[m].context_after =
                                WindowAfter(cells, at[m])

(***************************************************************************)
(* validate_sql.  A query text is a sequence of characters, put together  *)
(* from the fragments of FragmentPool.                                     *)
(***************************************************************************)
MaxFragments == 3

LowerLetters == <<"a", "c", "d", "e", "i", "l", "n", "o", "p", "r", "s", "t", "u", "x">>
UpperLetters == <<"A", "C", "D", "E", "I", "L", "N", "O", "P", "R", "S", "T", "U", "X">>

\* str.upper(), one character
UpperChar(c) ==
    IF \E k \in 1..Len(LowerLetters) : LowerLetters[k] = c
    THEN UpperLetters[CHOOSE k \in 1..Len(LowerLetters) : LowerLetters[k] = c]
    ELSE c

\* str.upper()
Upper(s) == [k \in 1..Len(s) |-> UpperChar(s[k])]

\* needle in haystack
Contains(haystack, needle) ==
    \E p \in 0..(Len(haystack) - Len(needle)) :
        \A k \in 1..Len(needle) : haystack[p + k] = needle[k]

dangerous_keywords ==
    <<<<"D", "R", "O", "P">>,
      <<"D", "E", "L", "E", "T", "E">>,
      <<"T", "R", "U", "N", "C", "A", "T", "E">>,
      <<"A", "L", "T", "E", "R">>,
      <<"I", "N", "S", "E", "R", "T">>,
      <<"U", "P", "D", "A", "T", "E">>>>

FragmentPool ==
    { <<"d", "r">>,
      <<"o", "p">>,
      <<"D", "R", "O", "P">>,
      <<"D", "e", "l", "e", "t", "e">>,
      <<"t", "r", "u", "n", "c", "a", "t", "e">>,
      <<"A", "L", "T", "E", "R">>,
      <<"i", "n", "s", "e", "r", "t">>,
      <<"u", "p", "d", "a", "t", "e", "d", "_", "a", "t">>,
      <<"'", "u", "p", "d", "a", "t", "e", "'">>,
      <<"s", "e", "l", "e", "c", "t", " ", "x">>,
      <<" ">> }

SqlTexts == { Join(fs) : fs \in SeqsUpTo(FragmentPool, MaxFragments) }

IsBlank(s) == \A k \in 1..Len(s) : s[k] = " "

\* what sqlparse.parse can do with a text: no statement (empty text, or
\* blank text with the releases that drop whitespace-only statements), at
\* least one statement, or an exception (the import itself included)
ParseOutcomes(s) ==
    (IF s = <<>> THEN {"no_statement"}
     ELSE IF IsBlank(s) THEN {"no_statement", "statements"}
     ELSE {"statements"}) \cup {"raises"}

\* the first dangerous keyword, in list order, found in sql_upper; 0 if none
FirstDangerous(sql_upper) ==
    IF \E k \in 1..Len(dangerous_keywords) :
           Contains(sql_upper, dangerous_keywords[k])
    THEN CHOOSE k \in 1..Len(dangerous_keywords) :
            /\ Contains(sql_upper, dangerous_keywords[k])
            /\ \A j \in 1..(k - 1) : ~Contains(sql_upper, dangerous_keywords[j])
    ELSE 0

Verdict(is_valid, message) == [is_valid |-> is_valid, message |-> message]

\* validate_sql comparing without upper-casing the query
validate_sql_case_sensitive(sql_query, parsed) ==
    IF parsed = "raises"
    THEN Verdict(FALSE, <<"SQL validation error: ">>)
    ELSE IF parsed = "no_statement"
    THEN Verdict(FALSE, <<"Invalid SQL syntax">>)
    ELSE IF FirstDangerous(sql_query) # 0
    THEN Verdict(FALSE, <<"Query contains potentially dangerous operation: ">>
                        \o dangerous_keywords[FirstDangerous(sql_query)])
    ELSE Verdict(TRUE, <<"Valid SQL query">>)

\* validate_sql, lines 400-419; parsed is the outcome of sqlparse.parse
validate_sql(sql_query, parsed) ==
    IF parsed = "raises"
    THEN Verdict(FALSE, <<"SQL validation error: ">>)
    ELSE IF parsed = "no_statement"
    THEN Verdict(FALSE, <<"Invalid SQL syntax">>)
    ELSE IF FirstDangerous(Upper(sql_query)) # 0
    THEN Verdict(FALSE, <<"Query contains potentially dangerous operation: ">>
                        \o dangerous_keywords[FirstDangerous(Upper(sql_query))])
    ELSE Verdict(TRUE, <<"Valid SQL query">>)

InitValidate ==
    /\ v_sql \in SqlTexts
    /\ v_pc = "call"
    /\ v_result = <<>>
    /\ IdleEmbed
    /\ IdleBatch
    /\ IdleParse
    /\ IdleQuery
    /\ IdleBuild
    /\ IdleExtract
    /\ IdleResponse
    /\ IdleAnalyze
    /\ IdleMine
    /\ IdleDetect
    /\ IdleCells
    /\ IdleHybrid
    /\ IdleRate
    /\ IdleSequence
    /\ IdleFormat
    /\ IdleDocs
    /\ IdleAdditive

v_Validate ==
    /\ v_pc = "call"
    /\ \E parsed \in ParseOutcomes(v_sql) :
         v_result' = validate_sql(v_sql, parsed)
    /\ v_pc' = "done"
    /\ UNCHANGED v_sql
    /\ UNCHANGED notValidate

NextValidate == v_Validate

SpecValidate == InitValidate /\ [][NextValidate]_vars

LowerChar(c) ==
    IF \E k \in 1..Len(UpperLetters) : UpperLetters[k] = c
    THEN LowerLetters[CHOOSE k \in 1..Len(UpperLetters) : UpperLetters[k] = c]
    ELSE c

\* s holds word at some position, letter case ignored
HoldsWord(s, word) ==
    \E p \in 0..(Len(s) - Len(word)) :
        \A k \in 1..Len(word) : LowerChar(s[p + k]) = LowerChar(word[k])

HoldsDangerous(s) ==
    \E k \in 1..Len(dangerous_keywords) : HoldsWord(s, dangerous_keywords[k])

\* C12: validate_sql returns, and returns (False, message) for the empty
\* text and for every text that holds DROP, DELETE, TRUNCATE, ALTER, INSERT
\* or UPDATE anywhere in any letter case; it returns True only for a
\* non-empty text that holds none of them.
C12_ValidateRejectsDangerous ==
    v_pc = "done" =>
        /\ DOMAIN v_result = {"is_valid", "message"}
        /\ (v_sql = <<>> \/ HoldsDangerous(v_sql)) =>
               ~v_result.is_valid /\ v_result.message # <<>>
        /\ v_result.is_valid => v_sql # <<>> /\ ~HoldsDangerous(v_sql)

\* the identifier updated_at inside a longer query is refused for UPDATE
C12_Witness ==
    /\ v_pc = "done"
    /\ v_sql = <<"s", "e", "l", "e", "c", "t", " ", "x", " ",
                 "u", "p", "d", "a", "t", "e", "d", "_", "a", "t">>
    /\ ~v_result.is_valid
    /\ v_result.message =
         <<"Query contains potentially dangerous operation: ",
           "U", "P", "D", "A", "T", "E">>

(***************************************************************************)
(* _parse_claude_response on the text of a reply.  The text is a sequence *)
(* of tokens: the markers "SQL Query:", Fence, "sql", "Confidence:",      *)
(* "Explanation:", the whitespace tokens " " and "\n", digits, "." and    *)
(* words.  Each regular expression is rendered by what re.search does     *)
(* with it: the leftmost start that can match, greedy \s*, lazy capture.  *)
(***************************************************************************)
MaxSegments == 3

\* the code fence, three backquotes
Fence == "'''"

\* the first position >= k of t that holds no whitespace; Len(t) + 1 if none
RECURSIVE SkipSpace(_, _)
SkipSpace(t, k) ==
    IF k > Len(t) THEN Len(t) + 1
    ELSE IF IsSpace(t[k]) THEN SkipSpace(t, k + 1) ELSE k

\* the first fence at a position >= k; 0 if none
NextFence(t, k) ==
    IF \E f \in k..Len(t) : t[f] = Fence
    THEN CHOOSE f \in k..Len(t) :
            t[f] = Fence /\ \A g \in k..(f - 1) : t[g] # Fence
    ELSE 0

Leftmost(S) == CHOOSE i \in S : \A j \in S : i <= j

\* SQL Query:\s*```(?:sql)?\s*(.*?)\s*```
LabeledBodyStart(t, i) ==
    LET j == SkipSpace(t, i + 1) IN
    IF j <= Len(t) /\ t[j] = Fence
    THEN IF j + 1 <= Len(t) /\ t[j + 1] = "sql" THEN j + 2 ELSE j + 1
    ELSE 0

sql_pattern_labeled(t) ==
    LET starts == { i \in 1..Len(t) :
                      /\ t[i] = "SQL Query:"
                      /\ LabeledBodyStart(t, i) # 0
                      /\ NextFence(t, LabeledBodyStart(t, i)) # 0 }
    IN IF starts = {} THEN <<>>
       ELSE LET b == LabeledBodyStart(t, Leftmost(starts))
            IN <<Strip(SubSeq(t, b, NextFence(t, b) - 1))>>

\* ```sql\s*(.*?)\s*```
sql_pattern_tagged(t) ==
    LET starts == { j \in 1..(Len(t) - 1) :
                      /\ t[j] = Fence
                      /\ t[j + 1] = "sql"
                      /\ NextFence(t, j + 2) # 0 }
    IN IF starts = {} THEN <<>>
       ELSE LET b == Leftmost(starts) + 2
            IN <<Strip(SubSeq(t, b, NextFence(t, b) - 1))>>

\* ```\s*(SELECT.*?)\s*```
sql_pattern_bare(t) ==
    LET starts == { j \in 1..Len(t) :
                      /\ t[j] = Fence
                      /\ SkipSpace(t, j + 1) <= Len(t)
                      /\ t[SkipSpace(t, j + 1)] = "SELECT"
                      /\ NextFence(t, SkipSpace(t, j + 1) + 1) # 0 }
    IN IF starts = {} THEN <<>>
       ELSE LET b == SkipSpace(t, Leftmost(starts) + 1)
            IN <<RStrip(SubSeq(t, b, NextFence(t, b + 1) - 1))>>

NumChars == {"0", "1", "2", "3", "4", "5", "6", "7", "8", "9", "."}

\* the end of the longest run of [0-9.] that starts at k
RECURSIVE NumRunEnd(_, _)
NumRunEnd(t, k) ==
    IF k + 1 <= Len(t) /\ t[k + 1] \in NumChars THEN NumRunEnd(t, k + 1) ELSE k

\* Confidence:\s*([0-9.]+)
confidence_pattern(t) ==
    LET starts == { i \in 1..Len(t) :
                      /\ t[i] = "Confidence:"
                      /\ SkipSpace(t, i + 1) <= Len(t)
                      /\ t[SkipSpace(t, i + 1)] \in NumChars }
    IN IF starts = {} THEN <<>>
       ELSE LET b == SkipSpace(t, Leftmost(starts) + 1)
            IN <<SubSeq(t, b, NumRunEnd(t, b))>>

\* the last position of the shortest text from b on that is followed by a
\* blank line or by the end of the text: (.*?)(?=\n\n|\Z)
RECURSIVE ParagraphEnd(_, _)
ParagraphEnd(t, e) ==
    IF e >= Len(t) THEN Len(t)
    ELSE IF e + 2 <= Len(t) /\ t[e + 1] = "\n" /\ t[e + 2] = "\n" THEN e
    ELSE ParagraphEnd(t, e + 1)

\* Explanation:\s*(.*?)(?=\n\n|\Z)
explanation_pattern(t) ==
    LET starts == { i \in 1..Len(t) : t[i] = "Explanation:" }
    IN IF starts = {} THEN <<>>
       ELSE LET b == SkipSpace(t, Leftmost(starts) + 1)
            IN <<SubSeq(t, b, ParagraphEnd(t, b - 1))>>

Triple(sql_query, confidence, explanation) ==
    [sql_query |-> sql_query, confidence |-> confidence,
     explanation |-> explanation]

\* the first pattern of the cascade that matches, lines 284-296
sql_match(t) ==
    IF sql_pattern_labeled(t) # <<>> THEN sql_pattern_labeled(t)
    ELSE IF sql_pattern_tagged(t) # <<>> THEN sql_pattern_tagged(t)
    ELSE sql_pattern_bare(t)

\* _parse_claude_response on a reply text: the try block of lines 283-314,
\* and the handler of lines 316-318 when float() raises ValueError
parse_response_text(t) ==
    IF confidence_pattern(t) # <<>> /\ Float(confidence_pattern(t)[1]) = <<>>
    THEN Triple(<<>>, Conf(0, 1), t)
    ELSE Triple(_clean_generated_sql(IF sql_match(t) # <<>>
                                     THEN Strip(sql_match(t)[1]) ELSE <<>>),
                IF confidence_pattern(t) # <<>>
                THEN Float(confidence_pattern(t)[1])[1] ELSE Conf(8, 10),
                IF explanation_pattern(t) # <<>>
                THEN Strip(explanation_pattern(t)[1]) ELSE t)

\* the parts a reply is put together from
Block(labeled, tagged, body) ==
    [kind |-> "block", labeled |-> labeled, tagged |-> tagged, body |-> body]

Prose(body) ==
    [kind |-> "prose", labeled |-> FALSE, tagged |-> FALSE, body |-> body]

BlockBodies == { <<"SELECT", " ", "1">>, <<"x">>, <<>> }

ProseBodies == { <<"x">>, <<"SELECT", " ", "x">> }

Segments ==
    { Block(l, g, b) : l \in BOOLEAN, g \in BOOLEAN, b \in BlockBodies }
    \cup { Prose(b) : b \in ProseBodies }

\* the text after "Confidence:"; <<>> when the reply has no such line
ConfidenceTexts ==
    { <<>>, <<"0", ".", "9", "3">>, <<"9", "5">>, <<"0", ".", "9", ".">> }

\* the text after "Explanation:"
ExplanationTexts ==
    { <<>>, <<"trivial">>, <<"trivial", "\n", "x">>,
      <<"trivial", "\n", "\n", "x">> }

Replies ==
    [segments : SeqsUpTo(Segments, MaxSegments),
     conf : ConfidenceTexts,
     has_explanation : BOOLEAN,
     expl : ExplanationTexts]

SegmentText(g) ==
    IF g.kind = "prose" THEN g.body \o <<"\n">>
    ELSE (IF g.labeled THEN <<"SQL Query:", "\n">> ELSE <<>>)
         \o <<Fence>> \o (IF g.tagged THEN <<"sql">> ELSE <<>>) \o <<"\n">>
         \o g.body \o <<"\n", Fence, "\n">>

\* response_body['content'][0]['text']
ReplyText(reply) ==
    Join(MapCells(SegmentText, reply.segments))
    \o (IF reply.conf = <<>> THEN <<>>
        ELSE <<"Confidence:", " ">> \o reply.conf \o <<"\n">>)
    \o (IF reply.has_explanation
        THEN <<"Explanation:", " ">> \o reply.expl ELSE <<>>)

InitResponse ==
    /\ r_reply \in { r \in Replies : r.has_explanation \/ r.expl = <<>> }
    /\ r_pc = "call"
    /\ r_parsed = <<>>
    /\ IdleEmbed
    /\ IdleBatch
    /\ IdleParse
    /\ IdleQuery
    /\ IdleBuild
    /\ IdleExtract
    /\ IdleValidate
    /\ IdleAnalyze
    /\ IdleMine
    /\ IdleDetect
    /\ IdleCells
    /\ IdleHybrid
    /\ IdleRate
    /\ IdleSequence
    /\ IdleFormat
    /\ IdleDocs
    /\ IdleAdditive

r_Parse ==
    /\ r_pc = "call"
    /\ r_parsed' = parse_response_text(ReplyText(r_reply))
    /\ r_pc' = "done"
    /\ UNCHANGED r_reply
    /\ UNCHANGED notResponse

NextResponse == r_Parse

SpecResponse == InitResponse /\ [][NextResponse]_vars

IsBlock(g) == g.kind = "block"
IsLabeled(g) == g.kind = "block" /\ g.labeled
IsTagged(g) == g.kind = "block" /\ g.tagged
IsBareSelect(g) ==
    /\ g.kind = "block"
    /\ ~g.tagged
    /\ Strip(g.body) # <<>>
    /\ Head(Strip(g.body)) = "SELECT"

\* the block the cascade is said to choose: <<>> or <<block>>
ChosenBlock(segments) ==
    IF SelectSeq(segments, IsLabeled) # <<>>
    THEN <<Head(SelectSeq(segments, IsLabeled))>>
    ELSE IF SelectSeq(segments, IsTagged) # <<>>
    THEN <<Head(SelectSeq(segments, IsTagged))>>
    ELSE IF SelectSeq(segments, IsBareSelect) # <<>>
    THEN <<Head(SelectSeq(segments, IsBareSelect))>>
    ELSE <<>>

\* the text up to the first blank line
FirstParagraph(t) == SubSeq(t, 1, ParagraphEnd(t, 0))

\* C13: the SQL is that of the labeled block if the reply has one, else of
\* the first sql-tagged block, else of the first bare block that starts
\* with SELECT, else empty; the confidence is the number after
\* "Confidence:" or 0.8 without one; the explanation is the paragraph after
\* "Explanation:" or the whole reply without one.
C13_ParseCascade ==
    r_pc = "done" =>
        /\ r_parsed.sql_query =
             IF ChosenBlock(r_reply.segments) = <<>> THEN <<>>
             ELSE _clean_generated_sql(Strip(ChosenBlock(r_reply.segments)[1].body))
        /\ r_reply.conf = <<>> => r_parsed.confidence = Conf(8, 10)
        /\ (r_reply.conf # <<>> /\ Float(r_reply.conf) # <<>>) =>
               r_parsed.confidence = Float(r_reply.conf)[1]
        /\ r_parsed.explanation =
             IF r_reply.has_explanation
             THEN Strip(FirstParagraph(r_reply.expl))
             ELSE ReplyText(r_reply)

(***************************************************************************)
(* SQLAnalyzer.analyze_query.  A query text is a sequence of atoms: a      *)
(* piece of a word (letters, digits, underscore), a blank, a line break    *)
(* or a punctuation mark.  Consecutive word atoms form one word.           *)
(***************************************************************************)
MaxSqlFragments == 3

SqlUpper(t) == [k \in 1..Len(t) |-> UpperAtom(t[k])]
SqlLower(t) == [k \in 1..Len(t) |-> LowerAtom(t[k])]

Punctuation == {"(", ")", ",", ".", ">=", "=", "*", "%", "--", "/*", "*/"}

\* \w
IsWordAtom(a) == ~IsSpace(a) /\ a \notin Punctuation

\* re.sub(r'^%sql\s*', '', sql, flags=re.IGNORECASE | re.MULTILINE), with
\* magic the atoms of the directive; bol: the position starts a line.
RECURSIVE RemoveMagic(_, _, _)
RemoveMagic(t, bol, magic) ==
    IF t = <<>> THEN <<>>
    ELSE IF /\ bol
            /\ Len(t) >= Len(magic)
            /\ SqlLower(SubSeq(t, 1, Len(magic))) = magic
         THEN LET rest == SubSeq(t, Len(magic) + 1, Len(t))
                  after == LStrip(rest)
                  eaten == Len(rest) - Len(after)
              IN RemoveMagic(after, eaten > 0 /\ rest[eaten] = "\n", magic)
         ELSE <<Head(t)>> \o RemoveMagic(Tail(t), Head(t) = "\n", magic)

\* re.sub(r'\s+', ' ', sql)
RECURSIVE CollapseRuns(_)
CollapseRuns(t) ==
    IF t = <<>> THEN <<>>
    ELSE IF IsSpace(Head(t))
         THEN <<" ">> \o CollapseRuns(LStrip(t))
         ELSE <<Head(t)>> \o CollapseRuns(Tail(t))

_clean_sql(sql) ==
    LET no_magic == RemoveMagic(RemoveMagic(sql, TRUE, <<"%", "sql">>),
                                TRUE, <<"%", "%", "sql">>)
        no_comments == StripBlockComments(StripLineComments(no_magic, FALSE))
    IN Strip(CollapseRuns(no_comments))

\* sqlparse, the lexer: a word starts at k and ends at RunEnd(t, k).
IsRunStart(t, k) == IsWordAtom(t[k]) /\ (k = 1 \/ ~IsWordAtom(t[k - 1]))

RECURSIVE RunEnd(_, _)
RunEnd(t, k) ==
    IF k < Len(t) /\ IsWordAtom(t[k + 1]) THEN RunEnd(t, k + 1) ELSE k

Word(t, k) == SubSeq(t, k, RunEnd(t, k))

\* sqlparse.keywords: the token type of each keyword.  The statement
\* keywords carry a sub-type of Keyword, the others Keyword itself.
KeywordTypes ==
    [w \in {"SELECT", "INSERT", "UPDATE", "DELETE"} |-> "Keyword.DML"]
    @@ [w \in {"CREATE", "ALTER", "DROP"} |-> "Keyword.DDL"]
    @@ [w \in {"WITH"} |-> "Keyword.CTE"]
    @@ [w \in {"FROM", "WHERE", "AS", "AND", "OR", "JOIN", "LEFT", "INNER",
                "LIMIT"} |-> "Keyword"]

\* token.ttype of the word starting at k; a word directly followed by an
\* opening parenthesis is lexed as a name.
TokenType(t, k) ==
    LET w == Word(t, k)
        e == RunEnd(t, k)
    IN IF e < Len(t) /\ t[e + 1] = "("
       THEN "Name"
       ELSE IF Len(w) = 1 /\ UpperAtom(w[1]) \in DOMAIN KeywordTypes
            THEN KeywordTypes[UpperAtom(w[1])]
            ELSE "Name"

Count(t, from, to, a) == Cardinality({ j \in from..to : t[j] = a })

\* sqlparse, grouping: the closing parenthesis paired with the opening
\* one at i, 0 when it is unpaired.
MatchClose(t, i) ==
    LET closes == { j \in (i + 1)..Len(t) :
                      /\ t[j] = ")"
                      /\ Count(t, i + 1, j - 1, "(") = Count(t, i + 1, j - 1, ")") }
    IN IF closes = {} THEN 0
       ELSE CHOOSE j \in closes : \A q \in closes : j <= q

\* position k lies inside a Parenthesis group
Nested(t, k) ==
    \E i \in 1..(k - 1) : t[i] = "(" /\ MatchClose(t, i) > k

IsKeywordAt(t, k, words) ==
    /\ IsRunStart(t, k)
    /\ TokenType(t, k) # "Name"
    /\ UpperAtom(t[k]) \in words

\* sqlparse.sql.Where.M_CLOSE, the one-word entries
WhereClose == {"LIMIT", "HAVING", "UNION", "EXCEPT", "RETURNING", "INTO"}

\* The Where groups of the statement from position k on, as <<first, last>>.
RECURSIVE Wheres(_, _)
Wheres(t, k) ==
    LET starts == { s \in k..Len(t) :
                      IsKeywordAt(t, s, {"WHERE"}) /\ ~Nested(t, s) }
    IN IF starts = {} THEN <<>>
       ELSE LET s == CHOOSE x \in starts : \A y \in starts : x <= y
                ends == { c \in (s + 1)..Len(t) :
                            IsKeywordAt(t, c, WhereClose) /\ ~Nested(t, c) }
                e == IF ends = {} THEN Len(t)
                     ELSE (CHOOSE x \in ends : \A y \in ends : x <= y) - 1
            IN <<(<<s, e>>)>> \o Wheres(t, e + 1)

\* parsed.tokens: the positions of the words that are tokens of the
\* statement itself, outside every group.
TopLevel(t) ==
    LET groups == Wheres(t, 1)
    IN { k \in 1..Len(t) :
           /\ IsRunStart(t, k)
           /\ \A i \in 1..Len(groups) : ~(groups[i][1] <= k /\ k <= groups[i][2])
           /\ ~Nested(t, k) }

StatementKeywords ==
    {"SELECT", "INSERT", "UPDATE", "DELETE", "CREATE", "ALTER", "DROP", "WITH"}

\* token.ttype is Keyword: identity with the type Keyword itself
IsKeyword(ttype) == ttype = "Keyword"

_get_query_type(t) ==
    LET hits == { k \in TopLevel(t) :
                    /\ IsKeyword(TokenType(t, k))
                    /\ Len(Word(t, k)) = 1
                    /\ UpperAtom(t[k]) \in StatementKeywords }
    IN IF hits = {} THEN "UNKNOWN"
       ELSE UpperAtom(t[CHOOSE k \in hits : \A q \in hits : k <= q])

\* token.ttype is Name, over parsed.flatten()
Names(t) ==
    { Word(t, k) : k \in { j \in 1..Len(t) :
                              IsRunStart(t, j) /\ TokenType(t, j) = "Name" } }

table_suffixes == {"_table", "_tbl", "_fact", "_dim", "_stage", "_raw"}

_looks_like_table_name(name) == LowerAtom(name[Len(name)]) \in table_suffixes

\* The names that _process_name_token returns on at once.
SkippedNames == {"FROM", "WHERE", "SELECT", "AS", "ON", "AND", "OR"}

IsSkipped(value) == Len(value) = 1 /\ UpperAtom(value[1]) \in SkippedNames

\* _extract_tables_and_columns with _process_name_token.  The value of a
\* name token holds no dot (the lexer makes the dot a token of its own),
\* so every name takes the branch of the undotted names.
TablesOf(t) ==
    { v \in Names(t) : ~IsSkipped(v) /\ _looks_like_table_name(v) }

ColumnsOf(t) ==
    { v \in Names(t) : ~IsSkipped(v) /\ ~_looks_like_table_name(v) }

\* The four join_patterns, each as the keyword sequences it admits between
\* the two names.
join_patterns ==
    << {<<"INNER", "JOIN">>, <<"JOIN">>},
       {<<"LEFT", "OUTER", "JOIN">>, <<"LEFT", "JOIN">>},
       {<<"RIGHT", "OUTER", "JOIN">>, <<"RIGHT", "JOIN">>},
       {<<"FULL", "OUTER", "JOIN">>, <<"FULL", "JOIN">>} >>

\* u[p..] spells the words ws, each after one blank, and then a blank and
\* the start of a name.
FollowedBy(u, p, ws) ==
    /\ p + 2 * Len(ws) + 1 <= Len(u)
    /\ \A i \in 1..Len(ws) : u[p + 2 * i - 2] = " " /\ u[p + 2 * i - 1] = ws[i]
    /\ u[p + 2 * Len(ws)] = " "
    /\ IsWordAtom(u[p + 2 * Len(ws) + 1])

\* The match of a join pattern that starts at k, as <<left, right, last>>,
\* or <<>>.
JoinMatchAt(u, k, forms) ==
    IF ~IsWordAtom(u[k]) THEN <<>>
    ELSE LET e == RunEnd(u, k)
             fits == { ws \in forms : FollowedBy(u, e + 1, ws) }
         IN IF fits = {} THEN <<>>
            ELSE LET ws == CHOOSE w \in fits : \A o \in fits : Len(w) >= Len(o)
                     r == e + 2 * Len(ws) + 2
                 IN <<SubSeq(u, k, e), Word(u, r), RunEnd(u, r)>>

JoinType(matched) ==
    IF \E j \in 1..Len(matched) : matched[j] = "LEFT" THEN "LEFT"
    ELSE IF \E j \in 1..Len(matched) : matched[j] = "RIGHT" THEN "RIGHT"
    ELSE IF \E j \in 1..Len(matched) : matched[j] = "FULL" THEN "FULL"
    ELSE "INNER"

\* re.finditer(pattern_regex, sql_str) from position k on
RECURSIVE JoinsFrom(_, _, _)
JoinsFrom(u, k, forms) ==
    IF k > Len(u) THEN <<>>
    ELSE LET m == JoinMatchAt(u, k, forms)
         IN IF m = <<>> THEN JoinsFrom(u, k + 1, forms)
            ELSE <<(<<m[1], m[2], JoinType(SubSeq(u, k, m[3]))>>)>>
                 \o JoinsFrom(u, m[3] + 1, forms)

_extract_joins(t) ==
    LET sql_str == SqlUpper(t)
    IN JoinsFrom(sql_str, 1, join_patterns[1])
       \o JoinsFrom(sql_str, 1, join_patterns[2])
       \o JoinsFrom(sql_str, 1, join_patterns[3])
       \o JoinsFrom(sql_str, 1, join_patterns[4])

\* str.replace('WHERE', '')
RemoveWhere(t) == SelectSeq(t, LAMBDA a : a # "WHERE")

\* re.split(r'\s+(?:AND|OR)\s+', where_str, flags=re.IGNORECASE)
RECURSIVE SplitConditions(_, _)
SplitConditions(t, acc) ==
    IF t = <<>> THEN <<acc>>
    ELSE IF /\ Len(t) >= 3
            /\ t[1] = " "
            /\ UpperAtom(t[2]) \in {"AND", "OR"}
            /\ t[3] = " "
         THEN <<acc>> \o SplitConditions(SubSeq(t, 4, Len(t)), <<>>)
         ELSE SplitConditions(Tail(t), Append(acc, Head(t)))

NonEmpty(parts) == SelectSeq(parts, LAMBDA c : c # <<>>)

StripAll(parts) == [i \in 1..Len(parts) |-> Strip(parts[i])]

\* The conditions of one Where group.
ConditionsOf(where) ==
    LET where_str == Strip(RemoveWhere(where))
    IN NonEmpty(StripAll(SplitConditions(where_str, <<>>)))

RECURSIVE FiltersOf(_, _)
FiltersOf(t, groups) ==
    IF groups = <<>> THEN <<>>
    ELSE ConditionsOf(SubSeq(t, Head(groups)[1], Head(groups)[2]))
         \o FiltersOf(t, Tail(groups))

_extract_filters(t) == FiltersOf(t, Wheres(t, 1))

aggregation_functions ==
    { <<"count">>, <<"sum">>, <<"avg">>, <<"min">>, <<"max">>, <<"median">>,
      <<"stddev">>, <<"first", "_value">>, <<"last", "_value">>,
      <<"row", "_number">>, <<"rank">>, <<"dense", "_rank">> }

date_functions ==
    { <<"date", "_trunc">>, <<"date", "_part">>, <<"extract">>, <<"dateadd">>,
      <<"datediff">>, <<"current", "_date">>, <<"current", "_timestamp">>,
      <<"now">>, <<"getdate">> }

\* f'{name.upper()}(' in sql_upper
IsCalled(sql_upper, name) == Contains(sql_upper, SqlUpper(name) \o <<"(">>)

AggregationsOf(t) ==
    { SqlUpper(agg_func) : agg_func \in
        { f \in aggregation_functions : IsCalled(SqlUpper(t), f) } }

\* re.findall(r'(\w+)\s*\(', sql_upper)
FunctionCalls(sql_upper) ==
    { Word(sql_upper, k) : k \in
        { j \in 1..Len(sql_upper) :
            /\ IsRunStart(sql_upper, j)
            /\ LET rest == LStrip(SubSeq(sql_upper, RunEnd(sql_upper, j) + 1,
                                         Len(sql_upper)))
               IN rest # <<>> /\ Head(rest) = "(" } }

FunctionsOf(t) ==
    { SqlUpper(date_func) : date_func \in
        { f \in date_functions : IsCalled(SqlUpper(t), f) } }
    \cup FunctionCalls(SqlUpper(t))

\* re.findall(r'\(\s*SELECT\s+.*?\)', sql_str, re.IGNORECASE | re.DOTALL)
RECURSIVE SubqueriesFrom(_, _)
SubqueriesFrom(t, k) ==
    IF k > Len(t) THEN <<>>
    ELSE LET s == k + 1 + (Len(SubSeq(t, k + 1, Len(t)))
                           - Len(LStrip(SubSeq(t, k + 1, Len(t)))))
             closes == { c \in (s + 2)..Len(t) : t[c] = ")" }
         IN IF /\ t[k] = "("
               /\ s < Len(t)
               /\ UpperAtom(t[s]) = "SELECT"
               /\ IsSpace(t[s + 1])
               /\ closes # {}
            THEN LET c == CHOOSE x \in closes : \A y \in closes : x <= y
                 IN <<SubSeq(t, k, c)>> \o SubqueriesFrom(t, c + 1)
            ELSE SubqueriesFrom(t, k + 1)

_extract_subqueries(t) == SubqueriesFrom(t, 1)

\* re.findall(r'WITH\s+(\w+)\s+AS\s*\(', sql_str, re.IGNORECASE)
_extract_ctes(t) ==
    { Word(t, k) : k \in
        { j \in 3..Len(t) :
            /\ UpperAtom(t[j - 2]) = "WITH"
            /\ t[j - 1] = " "
            /\ IsWordAtom(t[j])
            /\ LET e == RunEnd(t, j)
               IN /\ e + 2 <= Len(t)
                  /\ t[e + 1] = " "
                  /\ UpperAtom(t[e + 2]) = "AS"
                  /\ LET rest == LStrip(SubSeq(t, e + 3, Len(t)))
                     IN rest # <<>> /\ Head(rest) = "(" } }

SQLPattern(tables, columns, joins, filters, aggregations, functions, subqueries, cte_names, query_type) ==
    [tables |-> tables, columns |-> columns, joins |-> joins,
     filters |-> filters, aggregations |-> aggregations,
     functions |-> functions, subqueries |-> subqueries,
     cte_names |-> cte_names, query_type |-> query_type]

\* The pattern of the except branch.
UnknownPattern == SQLPattern({}, {}, <<>>, <<>>, {}, {}, <<>>, {}, "UNKNOWN")

\* The steps of the try block that can raise, in program order.
AnalyzeSteps ==
    <<"parse", "query_type", "tables", "joins", "filters", "functions",
      "subqueries", "ctes">>

StepIndex(step) ==
    IF step = "none" THEN Len(AnalyzeSteps) + 1
    ELSE CHOOSE i \in 1..Len(AnalyzeSteps) : AnalyzeSteps[i] = step

\* The pattern object when the steps before number n have run.
PatternAfter(parsed, n) ==
    SQLPattern(IF n > 3 THEN TablesOf(parsed) ELSE {},
               IF n > 3 THEN ColumnsOf(parsed) ELSE {},
               IF n > 4 THEN _extract_joins(parsed) ELSE <<>>,
               IF n > 5 THEN _extract_filters(parsed) ELSE <<>>,
               IF n > 6 THEN AggregationsOf(parsed) ELSE {},
               IF n > 6 THEN FunctionsOf(parsed) ELSE {},
               IF n > 7 THEN _extract_subqueries(parsed) ELSE <<>>,
               IF n > 8 THEN _extract_ctes(parsed) ELSE {},
               IF n > 2 THEN _get_query_type(parsed) ELSE "UNKNOWN")

\* The variant whose except branch hands back the pattern built so far.
analyze_query_keeps_partial(sql_query, fault) ==
    LET cleaned_sql == _clean_sql(sql_query)
    IN IF fault = "parse" \/ cleaned_sql = <<>>
       THEN UnknownPattern
       ELSE PatternAfter(cleaned_sql, StepIndex(fault))

\* analyze_query; sqlparse.parse of the empty text yields no statement, so
\* that its element [0] raises IndexError.
analyze_query(sql_query, fault) ==
    LET cleaned_sql == _clean_sql(sql_query)
    IN IF fault = "parse" \/ cleaned_sql = <<>>
       THEN UnknownPattern
       ELSE IF fault # "none"
            THEN UnknownPattern
            ELSE PatternAfter(cleaned_sql, StepIndex("none"))

AnalyzeFragments ==
    { <<"SELECT", " ", "SUM", "(", "x", ")", " ">>,
      <<"select", " ", "x", " ">>,
      <<"FROM", " ", "sales", "_fact", " ">>,
      <<"WHERE", " ", "date", " ", ">=", " ", "now", "(", ")", " ", "and",
        " ", "x", " ", "=", " ", "x", " ">>,
      <<"WITH", " ", "m", " ", "AS", " ", "(">>,
      <<")", " ">>,
      <<"--", " ", "SELECT", " ", "x", "\n">>,
      <<"/*", " ", "x", " ", "*/">>,
      <<"%", "sql", "\n">>,
      <<" ", "\n">>,
      <<"INSERT", " ", "t", "_tbl", " ">>,
      <<"a", " ", "LEFT", " ", "JOIN", " ", "b", " ">>,
      <<"x", " ", "=", " ", "(", "select", " ", "x", ")", " ">> }

AnalyzeTexts ==
    { Join(fs) : fs \in SeqsUpTo(AnalyzeFragments, MaxSqlFragments) }

InitAnalyze ==
    /\ a_sql \in AnalyzeTexts
    /\ a_fault \in {"none"} \cup Range(AnalyzeSteps)
    /\ a_pc = "ready"
    /\ a_pattern = <<>>
    /\ a_raised = FALSE
    /\ IdleEmbed
    /\ IdleBatch
    /\ IdleParse
    /\ IdleQuery
    /\ IdleBuild
    /\ IdleExtract
    /\ IdleValidate
    /\ IdleResponse
    /\ IdleMine
    /\ IdleDetect
    /\ IdleCells
    /\ IdleHybrid
    /\ IdleRate
    /\ IdleSequence
    /\ IdleFormat
    /\ IdleDocs
    /\ IdleAdditive

\* The whole body runs inside the try block and the handler only logs and
\* builds the empty pattern, so no exception leaves the call.
a_Analyze ==
    /\ a_pc = "ready"
    /\ a_pattern' = <<analyze_query(a_sql, a_fault)>>
    /\ a_raised' = FALSE
    /\ a_pc' = "done"
    /\ UNCHANGED <<a_sql, a_fault>>
    /\ UNCHANGED notAnalyze

NextAnalyze == a_Analyze

SpecAnalyze == InitAnalyze /\ [][NextAnalyze]_vars

AllSpace(t) == \A k \in 1..Len(t) : IsSpace(t[k])

\* C14: analyze_query never raises; for an empty or whitespace-only text
\* and whenever a step of the analysis fails, the pattern returned has
\* query_type UNKNOWN and every collection empty.
C14_AnalyzeFailsToUnknown ==
    a_pc = "done" =>
        /\ ~a_raised
        /\ (AllSpace(a_sql) \/ a_fault # "none")
              => a_pattern = <<UnknownPattern>>

\* A step after the table extraction fails on a text that names a table.
C14_Witness ==
    /\ a_pc = "done"
    /\ a_fault = "ctes"
    /\ TablesOf(_clean_sql(a_sql)) # {}
    /\ a_pattern = <<UnknownPattern>>

\* The first statement keyword among the tokens of the statement itself.
FirstStatementKeyword(t) ==
    LET hits == { k \in TopLevel(t) :
                    /\ TokenType(t, k) # "Name"
                    /\ UpperAtom(t[k]) \in StatementKeywords }
    IN IF hits = {} THEN "UNKNOWN"
       ELSE UpperAtom(t[CHOOSE k \in hits : \A q \in hits : k <= q])

\* C15: query_type is the first top-level keyword of the cleaned statement
\* among SELECT, INSERT, UPDATE, DELETE, CREATE, ALTER, DROP and WITH,
\* upper-cased, and UNKNOWN only when there is none.
C15_QueryTypeIsFirstKeyword ==
    (a_pc = "done" /\ a_fault = "none") =>
        a_pattern[1].query_type = FirstStatementKeyword(_clean_sql(a_sql))

(***************************************************************************)
(* SQLAnalyzer.analyze_business_patterns.  A Python dictionary is a        *)
(* sequence of <<key, value>> in insertion order; a set is gone through in *)
(* an order the program does not control.                                  *)
(***************************************************************************)
MaxQueries == 3
top_n == 5

DictKeys(dct) == [i \in 1..Len(dct) |-> dct[i][1]]

DictHas(dct, key) == \E i \in 1..Len(dct) : dct[i][1] = key

\* dct.get(key, default)
DictGet(dct, key, default) ==
    IF DictHas(dct, key)
    THEN dct[CHOOSE i \in 1..Len(dct) : dct[i][1] = key][2]
    ELSE default

\* dct[key] = value
DictSet(dct, key, value) ==
    IF DictHas(dct, key)
    THEN [i \in 1..Len(dct) |-> IF dct[i][1] = key THEN <<key, value>> ELSE dct[i]]
    ELSE Append(dct, <<key, value>>)

\* The orders in which a set can be gone through.
Orders(S) ==
    { o \in [1..Cardinality(S) -> S] : \A i, j \in DOMAIN o : o[i] = o[j] => i = j }

\* lines 333-342: the joins of one query
RECURSIVE TrackRelationships(_, _)
TrackRelationships(rel, joins) ==
    IF joins = <<>> THEN rel
    ELSE LET left_table == Head(joins)[1]
             right_table == Head(joins)[2]
         IN TrackRelationships(
                DictSet(rel, left_table,
                        DictGet(rel, left_table, {}) \cup {right_table}),
                Tail(joins))

\* table.lower() in filter_condition.lower()
Mentions(filter_condition, table) ==
    Contains(SqlLower(filter_condition), SqlLower(table))

\* lines 349-352: the filters of one query, for one table
RECURSIVE CountFilters(_, _, _)
CountFilters(counts, table, filters) ==
    IF filters = <<>> THEN counts
    ELSE CountFilters(
            IF Mentions(Head(filters), table)
            THEN DictSet(counts, Head(filters), DictGet(counts, Head(filters), 0) + 1)
            ELSE counts,
            table, Tail(filters))

\* lines 345-352, tables being the order the set of tables is gone through
RECURSIVE TrackFilters(_, _, _)
TrackFilters(table_filter_counts, tables, filters) ==
    IF tables = <<>> THEN table_filter_counts
    ELSE TrackFilters(
            DictSet(table_filter_counts, Head(tables),
                    CountFilters(DictGet(table_filter_counts, Head(tables), <<>>),
                                 Head(tables), filters)),
            Tail(tables), filters)

\* lines 359-360
RECURSIVE CountAggregations(_, _)
CountAggregations(counts, aggs) ==
    IF aggs = <<>> THEN counts
    ELSE CountAggregations(
            DictSet(counts, Head(aggs), DictGet(counts, Head(aggs), 0) + 1),
            Tail(aggs))

\* lines 355-360
RECURSIVE TrackAggregations(_, _, _)
TrackAggregations(table_agg_counts, tables, aggs) ==
    IF tables = <<>> THEN table_agg_counts
    ELSE TrackAggregations(
            DictSet(table_agg_counts, Head(tables),
                    CountAggregations(DictGet(table_agg_counts, Head(tables), <<>>),
                                      aggs)),
            Tail(tables), aggs)

business_keywords ==
    {"revenue", "profit", "loss", "margin", "conversion", "retention", "churn",
     "ltv", "cac", "arpu", "mrr", "arr", "cohort"}

\* any(keyword in sql_query.lower() for keyword in self.business_keywords)
HasBusinessKeyword(sql_query) ==
    \E k \in 1..Len(sql_query) : LowerAtom(sql_query[k]) \in business_keywords

\* The atoms that spell one of 'date', 'time', 'day', 'month', 'year'.
DateWordAtoms ==
    {"date", "time", "day", "month", "year", "_date", "_timestamp", "dateadd",
     "datediff", "getdate"}

\* any(date_word in filter_condition.lower() for date_word in [...])
HasDateWord(filter_condition) ==
    \E k \in 1..Len(filter_condition) :
        LowerAtom(filter_condition[k]) \in DateWordAtoms

\* any(func in sql_pattern.functions for func in self.date_functions)
UsesDateFunction(functions) == \E func \in date_functions : func \in functions

\* lines 367-370
DatePatternsOf(sql_pattern) ==
    IF UsesDateFunction(sql_pattern.functions)
    THEN SelectSeq(sql_pattern.filters, HasDateWord)
    ELSE <<>>

\* sorted(items, key=lambda x: x[1], reverse=True), which keeps the items
\* of equal count in their order; here without that guarantee.
RECURSIVE SortedByCount_unstable(_)
SortedByCount_unstable(items) ==
    IF items = <<>> THEN <<>>
    ELSE LET rest == SortedByCount_unstable(Tail(items))
             before == SelectSeq(rest, LAMBDA x : x[2] > Head(items)[2])
             after == SelectSeq(rest, LAMBDA x : x[2] <= Head(items)[2])
         IN before \o after \o <<Head(items)>>

\* sorted(items, key=lambda x: x[1], reverse=True): a stable sort, items of
\* equal count stay in their order.
RECURSIVE SortedByCount(_)
SortedByCount(items) ==
    IF items = <<>> THEN <<>>
    ELSE LET rest == SortedByCount(Tail(items))
             before == SelectSeq(rest, LAMBDA x : x[2] > Head(items)[2])
             after == SelectSeq(rest, LAMBDA x : x[2] <= Head(items)[2])
         IN before \o <<Head(items)>> \o after

\* [x[0] for x in sorted(...)[:5]]
TopKeys(items) ==
    LET top == SubSeq(SortedByCount(items), 1, Min(top_n, Len(items)))
    IN DictKeys(top)

\* lines 373-379: one list per table
TopPatterns(table_counts) ==
    [i \in 1..Len(table_counts) |->
        <<table_counts[i][1], TopKeys(table_counts[i][2])>>]

BusinessPattern(table_relationships, common_filters, business_calculations, date_patterns, aggregation_patterns) ==
    [table_relationships |-> table_relationships,
     common_filters |-> common_filters,
     business_calculations |-> business_calculations,
     date_patterns |-> date_patterns,
     aggregation_patterns |-> aggregation_patterns]

\* The corpus: statements with a list of function calls, a table and a
\* list of conditions, and a few texts of other shapes.
RECURSIVE SelectList(_)
SelectList(fns) ==
    IF fns = <<>> THEN <<>>
    ELSE <<",", " ">> \o Head(fns) \o <<"(", "x", ")">> \o SelectList(Tail(fns))

RECURSIVE Conjunction(_)
Conjunction(conds) ==
    IF Len(conds) = 1 THEN Head(conds)
    ELSE Head(conds) \o <<" ", "AND", " ">> \o Conjunction(Tail(conds))

QueryText(fns, table, conds) ==
    <<"SELECT", " ", "x">> \o SelectList(fns)
    \o <<" ", "FROM", " ">> \o table
    \o <<" ", "WHERE", " ">> \o Conjunction(conds)

OnColumn(table, column) == table \o <<".", column>>

t_fact == <<"t", "_fact">>
sales_fact == <<"sales", "_fact">>

QueryPool ==
    { QueryText(<< <<"count">>, <<"sum">>, <<"avg">> >>, t_fact,
                << OnColumn(t_fact, "a"), OnColumn(t_fact, "b"),
                   OnColumn(t_fact, "c") >>),
      QueryText(<< <<"min">>, <<"max">>, <<"median">> >>, t_fact,
                << OnColumn(t_fact, "d"), OnColumn(t_fact, "e"),
                   OnColumn(t_fact, "f") >>),
      QueryText(<< <<"sum">>, <<"max">> >>, t_fact,
                << OnColumn(t_fact, "g"), OnColumn(t_fact, "a"),
                   OnColumn(t_fact, "f") >>),
      QueryText(<<>>, sales_fact,
                << <<"date", " ", ">=", " ", "now", "(", ")">> >>),
      QueryText(<< <<"date", "_trunc">> >>, sales_fact,
                << OnColumn(sales_fact, "x"),
                   <<"date", " ", ">=", " ", "x">> >>),
      <<"select", " ", "sum", "(", "revenue", ")", " ", "from", " ", "sales",
        "_fact">>,
      <<"SELECT", " ", "x", " ", "FROM", " ", "a", " ", "JOIN", " ", "b">>,
      <<" ">> }

Corpora == SeqsUpTo(QueryPool, MaxQueries)

InitMine ==
    /\ bp_extracts \in Corpora
    /\ bp_next = 0
    /\ bp_patterns = <<>>
    /\ bp_relationships = <<>>
    /\ bp_filter_counts = <<>>
    /\ bp_agg_counts = <<>>
    /\ bp_calculations = <<>>
    /\ bp_dates = <<>>
    /\ bp_result = <<>>
    /\ bp_pc = "loop"
    /\ IdleEmbed
    /\ IdleBatch
    /\ IdleParse
    /\ IdleQuery
    /\ IdleBuild
    /\ IdleExtract
    /\ IdleValidate
    /\ IdleResponse
    /\ IdleAnalyze
    /\ IdleDetect
    /\ IdleCells
    /\ IdleHybrid
    /\ IdleRate
    /\ IdleSequence
    /\ IdleFormat
    /\ IdleDocs
    /\ IdleAdditive

\* One pass of the loop of lines 329-370.
bp_Extract ==
    /\ bp_pc = "loop"
    /\ bp_next < Len(bp_extracts)
    /\ \E sql_query \in {bp_extracts[bp_next + 1]} :
       \E sql_pattern \in {analyze_query(sql_query, "none")} :
          /\ \E tables \in Orders(sql_pattern.tables) :
             \E aggs \in Orders(sql_pattern.aggregations) :
                /\ bp_filter_counts' =
                      TrackFilters(bp_filter_counts, tables, sql_pattern.filters)
                /\ bp_agg_counts' = TrackAggregations(bp_agg_counts, tables, aggs)
          /\ bp_relationships' =
                TrackRelationships(bp_relationships, sql_pattern.joins)
          /\ bp_calculations' =
                IF HasBusinessKeyword(sql_query)
                THEN Append(bp_calculations, sql_query)
                ELSE bp_calculations
          /\ bp_dates' = bp_dates \o DatePatternsOf(sql_pattern)
          /\ bp_patterns' = Append(bp_patterns, sql_pattern)
    /\ bp_next' = bp_next + 1
    /\ UNCHANGED <<bp_extracts, bp_result, bp_pc>>
    /\ UNCHANGED notMine

\* Lines 372-382: the counts become the lists of the result.
bp_Return ==
    /\ bp_pc = "loop"
    /\ bp_next = Len(bp_extracts)
    /\ bp_result' = <<BusinessPattern(bp_relationships,
                                      TopPatterns(bp_filter_counts),
                                      bp_calculations, bp_dates,
                                      TopPatterns(bp_agg_counts))>>
    /\ bp_pc' = "done"
    /\ UNCHANGED <<bp_extracts, bp_next, bp_patterns, bp_relationships,
                   bp_filter_counts, bp_agg_counts, bp_calculations, bp_dates>>
    /\ UNCHANGED notMine

NextMine ==
    \/ bp_Extract
    \/ bp_Return

SpecMine == InitMine /\ [][NextMine]_vars

\* The statement calls a function of the date vocabulary.
CallsDateFunction(sql_query) ==
    \E f \in date_functions : IsCalled(SqlUpper(_clean_sql(sql_query)), f)

\* C16: every WHERE filter of a query that uses a function of the date
\* vocabulary, and whose text holds one of the words date, time, day, month
\* or year, is recorded in date_patterns.
C16_DateFiltersRecorded ==
    bp_pc = "done" =>
        \A i \in 1..Len(bp_extracts) :
            CallsDateFunction(bp_extracts[i]) =>
                LET filters == bp_patterns[i].filters
                IN \A j \in 1..Len(filters) :
                      HasDateWord(filters[j]) =>
                          \E d \in 1..Len(bp_result[1].date_patterns) :
                              bp_result[1].date_patterns[d] = filters[j]

PositionIn(keys, x) == CHOOSE i \in 1..Len(keys) : keys[i] = x

\* A top list against the counts it was drawn from: at most top_n entries,
\* no entry twice, counts never increasing, equal counts in the order of
\* first encounter, nothing left out that outnumbers an entry kept.
IsTopList(list, keys, count) ==
    /\ Len(list) <= top_n
    /\ Len(list) = Min(top_n, Len(keys))
    /\ \A i \in 1..Len(list) : \E k \in 1..Len(keys) : keys[k] = list[i]
    /\ \A i, j \in 1..Len(list) :
          i < j =>
             /\ list[i] # list[j]
             /\ count[list[i]] >= count[list[j]]
             /\ count[list[i]] = count[list[j]] =>
                   PositionIn(keys, list[i]) < PositionIn(keys, list[j])
    /\ \A k \in 1..Len(keys) :
          (\A i \in 1..Len(list) : list[i] # keys[k]) =>
              \A i \in 1..Len(list) : count[keys[k]] <= count[list[i]]

\* C17: for every table seen in an analysed query, common_filters[table]
\* and aggregation_patterns[table] hold at most five entries, none twice,
\* by non-increasing number of occurrences in the corpus, entries of equal
\* count in the order of first encounter, and no entry left out has a
\* strictly higher count than an entry kept.
C17_TopFivePerTable ==
    bp_pc = "done" =>
        \A patterns \in {bp_patterns} :
        \A table \in UNION { patterns[i].tables : i \in 1..Len(patterns) } :
        \A filter_keys \in { DictKeys(DictGet(bp_filter_counts, table, <<>>)) } :
        \A agg_keys \in { DictKeys(DictGet(bp_agg_counts, table, <<>>)) } :
        \A filter_count \in
              { [f \in Range(filter_keys) |->
                    Cardinality(UNION {
                        { <<i, j>> : j \in { j \in 1..Len(patterns[i].filters) :
                            /\ table \in patterns[i].tables
                            /\ patterns[i].filters[j] = f
                            /\ Mentions(f, table) } } :
                        i \in 1..Len(patterns) })] } :
        \A agg_count \in
              { [a \in Range(agg_keys) |->
                    Cardinality({ i \in 1..Len(patterns) :
                        /\ table \in patterns[i].tables
                        /\ a \in patterns[i].aggregations })] } :
           /\ DictHas(bp_result[1].common_filters, table)
           /\ DictHas(bp_result[1].aggregation_patterns, table)
           /\ IsTopList(DictGet(bp_result[1].common_filters, table, <<>>),
                        filter_keys, filter_count)
           /\ IsTopList(DictGet(bp_result[1].aggregation_patterns, table, <<>>),
                        agg_keys, agg_count)

\* A table with more than five distinct filters and more than five distinct
\* aggregations, of unequal counts, so that both lists are cut.
C17_Witness ==
    /\ bp_pc = "done"
    /\ \E i \in 1..Len(bp_filter_counts) :
          /\ Len(bp_filter_counts[i][2]) > top_n
          /\ \E a, b \in 1..Len(bp_filter_counts[i][2]) :
                bp_filter_counts[i][2][a][2] # bp_filter_counts[i][2][b][2]
          /\ Len(DictGet(bp_result[1].common_filters,
                         bp_filter_counts[i][1], <<>>)) = top_n
    /\ \E i \in 1..Len(bp_agg_counts) :
          /\ Len(bp_agg_counts[i][2]) > top_n
          /\ Len(DictGet(bp_result[1].aggregation_patterns,
                         bp_agg_counts[i][1], <<>>)) = top_n

(***************************************************************************)
(* NotebookParser._contains_sql over every text of up to MaxTextLen        *)
(* tokens.                                                                 *)
(***************************************************************************)
MaxTextLen == 4

DetectTokens ==
    {"SELECT", "with", "x", " ", "\n", "*", "--", "/*", "*/", "%sql", "%%SQL"}

DetectTexts == SeqsUpTo(DetectTokens, MaxTextLen)

InitDetect ==
    /\ d_text \in DetectTexts
    /\ d_pc = "ready"
    /\ d_result = <<>>
    /\ IdleEmbed
    /\ IdleBatch
    /\ IdleParse
    /\ IdleQuery
    /\ IdleBuild
    /\ IdleExtract
    /\ IdleValidate
    /\ IdleResponse
    /\ IdleAnalyze
    /\ IdleMine
    /\ IdleCells
    /\ IdleHybrid
    /\ IdleRate
    /\ IdleSequence
    /\ IdleFormat
    /\ IdleDocs
    /\ IdleAdditive

d_Detect ==
    /\ d_pc = "ready"
    /\ d_result' = <<_contains_sql(d_text)>>
    /\ d_pc' = "done"
    /\ UNCHANGED d_text
    /\ UNCHANGED notDetect

NextDetect == d_Detect

SpecDetect == InitDetect /\ [][NextDetect]_vars

\* The text without its comments.
Uncommented(t) == StripBlockComments(StripLineComments(t, FALSE))

\* A line of t begins, after optional whitespace, with a keyword.
LineBeginsWithKeyword(t) ==
    \E k \in 1..Len(t) :
        /\ UpperAtom(t[k]) \in Keywords
        /\ \E b \in 1..k :
              /\ (b = 1 \/ t[b - 1] = "\n")
              /\ \A q \in b..(k - 1) : IsSpace(t[q])

HoldsMarker(t) == \E k \in 1..Len(t) : LowerAtom(t[k]) \in {"%sql", "%%sql"}

MaxDocCells == 3

SourcePool ==
    { Str(<<"x">>),
      Str(<<"SELECT", " ", "x">>),
      Lines(<< <<"%sql", " ">>, <<"x">> >>),
      Str(<<"--", "SELECT", " ", "x">>),
      JsonNull }

JupyterCellPool ==
    { [cell_type |-> ty, source |-> src] :
        ty \in {"markdown", "code", "raw", "absent"}, src \in SourcePool }

ParagraphPool ==
    { [text |-> tx] : tx \in
        { <<>>, <<"x">>, <<"SELECT", " ", "x">>, <<"%sql", " ", "x">>,
          <<"%md">>, <<"%md", " ", "x", "\n">>, <<"%md", "SELECT", " ", "x">>,
          <<" ", "%md", " ", "x">>, NullSource } }

InitCells ==
    /\ \/ n_dialect = "jupyter" /\ n_data \in SeqsUpTo(JupyterCellPool, MaxDocCells)
       \/ n_dialect = "zeppelin" /\ n_data \in SeqsUpTo(ParagraphPool, MaxDocCells)
    /\ n_pc = "ready"
    /\ n_notebook = <<>>
    /\ IdleEmbed
    /\ IdleBatch
    /\ IdleParse
    /\ IdleQuery
    /\ IdleBuild
    /\ IdleExtract
    /\ IdleValidate
    /\ IdleResponse
    /\ IdleAnalyze
    /\ IdleMine
    /\ IdleDetect
    /\ IdleHybrid
    /\ IdleRate
    /\ IdleSequence
    /\ IdleFormat
    /\ IdleDocs
    /\ IdleAdditive

n_Jupyter ==
    /\ n_pc = "ready"
    /\ n_dialect = "jupyter"
    /\ n_notebook' = <<_parse_jupyter_notebook("p", Doc(n_data, <<>>))>>
    /\ n_pc' = "done"
    /\ UNCHANGED <<n_dialect, n_data>>
    /\ UNCHANGED notCells

\* A paragraph whose text is null makes text.startswith raise: no
\* ParsedNotebook is built.
n_Zeppelin ==
    /\ n_pc = "ready"
    /\ n_dialect = "zeppelin"
    /\ IF \E k \in 1..Len(n_data) : n_data[k].text = NullSource
       THEN n_notebook' = <<>> /\ n_pc' = "raised"
       ELSE /\ n_notebook' = <<_parse_zeppelin_notebook("p", Doc(<<>>, n_data))>>
            /\ n_pc' = "done"
    /\ UNCHANGED <<n_dialect, n_data>>
    /\ UNCHANGED notCells

NextCells ==
    \/ n_Jupyter
    \/ n_Zeppelin

SpecCells == InitCells /\ [][NextCells]_vars

\* The entries of cells at the positions of idx, in their order.
RECURSIVE Pick(_, _, _)
Pick(cells, idx, k) ==
    IF k > Len(cells) THEN <<>>
    ELSE (IF k \in idx THEN <<cells[k]>> ELSE <<>>) \o Pick(cells, idx, k + 1)

SqlCellPositions(cells) ==
    { k \in 1..Len(cells) :
        cells[k].cell_type = "code" /\ _contains_sql(cells[k].source) }

MarkdownPositions ==
    { k \in 1..Len(n_data) :
        IF n_dialect = "jupyter"
        THEN n_data[k].cell_type = "markdown"
        ELSE n_data[k].text # <<>> /\ Head(n_data[k].text) = "%md" }

\* C19: in every ParsedNotebook of either dialect, sql_cells and
\* markdown_cells are subsequences of cells in the order of cells, and are
\* disjoint; sql_cells holds exactly the code cells whose source is detected
\* as SQL, markdown_cells exactly the markdown cells (the paragraphs whose
\* text starts with %md, stored without that prefix).
C19_CellListsPartition ==
    n_pc = "done" =>
        LET nb == n_notebook[1]
        IN /\ Len(nb.cells) = Len(n_data)
           /\ nb.sql_cells = Pick(nb.cells, SqlCellPositions(nb.cells), 1)
           /\ nb.markdown_cells = Pick(nb.cells, MarkdownPositions, 1)
           /\ SqlCellPositions(nb.cells) \cap MarkdownPositions = {}
           /\ Range(nb.sql_cells) \cap Range(nb.markdown_cells) = {}
           /\ \A k \in 1..Len(n_data) :
                 /\ nb.cells[k].cell_type = "markdown" <=> k \in MarkdownPositions
                 /\ n_dialect = "zeppelin" =>
                       nb.cells[k].source =
                           IF k \in MarkdownPositions
                           THEN Strip(Tail(n_data[k].text))
                           ELSE n_data[k].text

\* A paragraph document with a markdown paragraph that holds SQL after its
\* directive, a SQL paragraph and a paragraph of neither kind.
C19_Witness ==
    /\ n_pc = "done"
    /\ n_dialect = "zeppelin"
    /\ Len(n_notebook[1].cells) = 3
    /\ Len(n_notebook[1].sql_cells) = 1
    /\ Len(n_notebook[1].markdown_cells) = 1
    /\ _contains_sql(n_notebook[1].markdown_cells[1].source)

(***************************************************************************)
(* OpenSearchClient.hybrid_search.  A weight is a decimal number, kept as  *)
(* a count of tenths.                                                      *)
(***************************************************************************)
MaxAlpha == 12
MaxHits == 2
AlphaScale == 10

Decimal(tenths) == [num |-> tenths, den |-> AlphaScale]

\* alpha: float = 0.7
default_alpha == Decimal(7)

\* 1 - alpha
OneMinus(alpha) == Decimal(AlphaScale - alpha.num)

\* The body of lines 346-379 with both clauses at full weight.
search_body_unweighted(query_text, query_embedding, size, alpha) ==
    [size |-> size,
     query |-> [bool |-> [should |->
        << [multi_match |-> [query |-> query_text,
                             fields |-> <<"sql_query^2", "business_context^1.5",
                                          "context_before", "context_after">>,
                             type |-> "best_fields",
                             boost |-> Decimal(AlphaScale)]],
           [knn |-> [embedding |-> [vector |-> query_embedding,
                                    k |-> size,
                                    boost |-> Decimal(AlphaScale)]]] >>]],
     _source |-> [excludes |-> <<"embedding">>]]

\* search_body, lines 346-379
search_body(query_text, query_embedding, size, alpha) ==
    [size |-> size,
     query |-> [bool |-> [should |->
        << [multi_match |-> [query |-> query_text,
                             fields |-> <<"sql_query^2", "business_context^1.5",
                                          "context_before", "context_after">>,
                             type |-> "best_fields",
                             boost |-> OneMinus(alpha)]],
           [knn |-> [embedding |-> [vector |-> query_embedding,
                                    k |-> size,
                                    boost |-> alpha]]] >>]],
     _source |-> [excludes |-> <<"embedding">>]]

HybridArgs ==
    [query_text : {"q1", "q2"},
     size : {1, 10},
     alpha : {<<>>} \cup { <<Decimal(n)>> : n \in 0..MaxAlpha }]

\* self.client.search: the number of hits found, or -1 for an exception
SearchOutcomes == (-1)..MaxHits

Hit(i) == [id |-> i, score |-> MaxHits - i, source |-> i]

InitHybrid ==
    /\ h_args \in HybridArgs
    /\ h_pc = "ready"
    /\ h_body = <<>>
    /\ h_results = <<>>
    /\ IdleEmbed
    /\ IdleBatch
    /\ IdleParse
    /\ IdleQuery
    /\ IdleBuild
    /\ IdleExtract
    /\ IdleValidate
    /\ IdleResponse
    /\ IdleAnalyze
    /\ IdleMine
    /\ IdleDetect
    /\ IdleCells
    /\ IdleRate
    /\ IdleSequence
    /\ IdleFormat
    /\ IdleDocs
    /\ IdleAdditive

h_Search ==
    /\ h_pc = "ready"
    /\ LET alpha == IF h_args.alpha = <<>> THEN default_alpha ELSE h_args.alpha[1]
       IN h_body' = <<search_body(h_args.query_text, "embedding", h_args.size, alpha)>>
    /\ \E outcome \in SearchOutcomes :
          h_results' = IF outcome = -1 THEN <<(<<>>)>>
                       ELSE <<[i \in 1..Min(outcome, h_args.size) |-> Hit(i)]>>
    /\ h_pc' = "done"
    /\ UNCHANGED h_args
    /\ UNCHANGED notHybrid

NextHybrid == h_Search

SpecHybrid == InitHybrid /\ [][NextHybrid]_vars

MaxThreads == 2
MaxTasks == 3
MaxTime == 4

RateWorkers == 1..rl_threads

InitRate ==
    /\ rl_threads \in 1..MaxThreads
    /\ rl_queue \in 1..MaxTasks
    /\ rl_pc = [w \in 1..rl_threads |-> "idle"]
    /\ rl_current_time = [w \in 1..rl_threads |-> 0]
    /\ rl_wake = [w \in 1..rl_threads |-> 0]
    /\ rl_now = min_request_interval
    /\ rl_last_request_time = 0
    /\ rl_calls = <<>>
    /\ IdleEmbed
    /\ IdleBatch
    /\ IdleParse
    /\ IdleQuery
    /\ IdleBuild
    /\ IdleExtract
    /\ IdleValidate
    /\ IdleResponse
    /\ IdleAnalyze
    /\ IdleMine
    /\ IdleDetect
    /\ IdleCells
    /\ IdleHybrid
    /\ IdleSequence
    /\ IdleFormat
    /\ IdleDocs
    /\ IdleAdditive

\* a worker takes the next submitted task and enters generate_embedding
rl_Take(w) ==
    /\ rl_pc[w] = "idle"
    /\ rl_queue > 0
    /\ rl_queue' = rl_queue - 1
    /\ rl_pc' = [rl_pc EXCEPT ![w] = "time"]
    /\ UNCHANGED <<rl_threads, rl_current_time, rl_wake, rl_now,
                   rl_last_request_time, rl_calls>>
    /\ UNCHANGED notRate

\* line 42: current_time = time.time()
rl_Time(w) ==
    /\ rl_pc[w] = "time"
    /\ rl_current_time' = [rl_current_time EXCEPT ![w] = rl_now]
    /\ rl_pc' = [rl_pc EXCEPT ![w] = "check"]
    /\ UNCHANGED <<rl_threads, rl_queue, rl_wake, rl_now,
                   rl_last_request_time, rl_calls>>
    /\ UNCHANGED notRate

\* lines 43-46: the read of self.last_request_time and the comparison
rl_Check(w) ==
    /\ rl_pc[w] = "check"
    /\ LET time_since_last_request == rl_current_time[w] - rl_last_request_time
       IN IF time_since_last_request < min_request_interval
          THEN /\ rl_wake' = [rl_wake EXCEPT ![w] =
                     rl_now + (min_request_interval - time_since_last_request)]
               /\ rl_pc' = [rl_pc EXCEPT ![w] = "sleep"]
          ELSE /\ rl_pc' = [rl_pc EXCEPT ![w] = "update"]
               /\ UNCHANGED rl_wake
    /\ UNCHANGED <<rl_threads, rl_queue, rl_current_time, rl_now,
                   rl_last_request_time, rl_calls>>
    /\ UNCHANGED notRate

\* line 47: time.sleep(sleep_time) returns once the time has passed
rl_Sleep(w) ==
    /\ rl_pc[w] = "sleep"
    /\ rl_now >= rl_wake[w]
    /\ rl_pc' = [rl_pc EXCEPT ![w] = "update"]
    /\ UNCHANGED <<rl_threads, rl_queue, rl_current_time, rl_wake, rl_now,
                   rl_last_request_time, rl_calls>>
    /\ UNCHANGED notRate

\* line 49: self.last_request_time = time.time(); the call of the provider
\* that follows is released at that time
rl_Update(w) ==
    /\ rl_pc[w] = "update"
    /\ rl_last_request_time' = rl_now
    /\ rl_calls' = Append(rl_calls, rl_now)
    /\ rl_pc' = [rl_pc EXCEPT ![w] = "idle"]
    /\ UNCHANGED <<rl_threads, rl_queue, rl_current_time, rl_wake, rl_now>>
    /\ UNCHANGED notRate

\* the clock advances
rl_Tick ==
    /\ rl_now < MaxTime
    /\ rl_now' = rl_now + 1
    /\ UNCHANGED <<rl_threads, rl_queue, rl_pc, rl_current_time, rl_wake,
                   rl_last_request_time, rl_calls>>
    /\ UNCHANGED notRate

rl_Worker(w) ==
    rl_Take(w) \/ rl_Time(w) \/ rl_Check(w) \/ rl_Sleep(w) \/ rl_Update(w)

NextRate == rl_Tick \/ \E w \in RateWorkers : rl_Worker(w)

SpecRate == InitRate /\ [][NextRate]_vars

\* C21: any two calls of the provider made through the shared client are
\* released at least min_request_interval apart, whatever the interleaving
\* of the worker threads.
C21_CallsSpaced ==
    \A i, j \in 1..Len(rl_calls) :
        i < j => rl_calls[j] - rl_calls[i] >= min_request_interval

\* The same spacing where the pool has a single worker thread.
C21_SequentialCallsSpaced ==
    rl_threads = 1 => C21_CallsSpaced

\* a single worker has released two calls
C21_SequentialWitness ==
    /\ rl_threads = 1
    /\ Len(rl_calls) >= 2

(***************************************************************************)
(* build_knowledge_base as a sequence of stages, with the worker tasks of *)
(* its three parallel stages (extract_metadata, parse_notebooks_parallel, *)
(* generate_embeddings_batch).  Each of the three runs its tasks inside   *)
(* a with-block over a ThreadPoolExecutor and loops over as_completed of  *)
(* all its futures, so it returns once every task has finished.           *)
(***************************************************************************)
MaxStageTasks == 2
MaxPool == 2
MaxBatches == 2

ParallelStages == {"catalog", "parse", "embed"}

SqRunning == { t \in 1..Len(sq_tasks) : sq_tasks[t] = "running" }

Event(name) == [name |-> name, running |-> Cardinality(SqRunning)]

InitSequence ==
    /\ sq_pc = "create_index"
    /\ sq_force \in BOOLEAN
    /\ sq_existed \in BOOLEAN
    /\ sq_max_workers \in 1..MaxPool
    /\ sq_entered = FALSE
    /\ sq_tasks = <<>>
    /\ sq_batches = 0
    /\ sq_events = <<>>
    /\ IdleEmbed
    /\ IdleBatch
    /\ IdleParse
    /\ IdleQuery
    /\ IdleBuild
    /\ IdleExtract
    /\ IdleValidate
    /\ IdleResponse
    /\ IdleAnalyze
    /\ IdleMine
    /\ IdleDetect
    /\ IdleCells
    /\ IdleHybrid
    /\ IdleRate
    /\ IdleFormat
    /\ IdleDocs
    /\ IdleAdditive

\* the requests create_index sends after the existence check, up to the
\* one that raises
IndexRequests(existed, force, fails) ==
    IF fails = "exists" THEN <<>>
    ELSE IF existed
    THEN IF force
         THEN IF fails = "delete" THEN <<"delete">> ELSE <<"delete", "create">>
         ELSE <<>>
    ELSE <<"create">>

\* Step 1: create_index; the build returns False when a request raised
sq_CreateIndex ==
    /\ sq_pc = "create_index"
    /\ \E fails \in ClientCalls :
         LET requests == IndexRequests(sq_existed, sq_force, fails)
         IN /\ sq_events' = sq_events \o
                  <<Event("create_index")>> \o
                  [k \in 1..Len(requests) |-> Event(requests[k])]
            /\ sq_pc' = IF fails = "none" \/ (fails \in {"delete", "create"}
                                               /\ fails \notin Range(requests))
                        THEN "catalog" ELSE "returned"
    /\ UNCHANGED <<sq_force, sq_existed, sq_max_workers, sq_entered, sq_tasks,
                   sq_batches>>
    /\ UNCHANGED notSequence

\* the executor.submit calls of a parallel stage: one task per table,
\* notebook path or text
sq_Submit ==
    /\ sq_pc \in ParallelStages
    /\ ~sq_entered
    /\ sq_entered' = TRUE
    /\ \E n \in (IF sq_pc = "embed" THEN 1 ELSE 0)..MaxStageTasks :
          sq_tasks' = [t \in 1..n |-> "pending"]
    /\ sq_events' = Append(sq_events, Event(sq_pc))
    /\ UNCHANGED <<sq_pc, sq_force, sq_existed, sq_max_workers, sq_batches>>
    /\ UNCHANGED notSequence

\* a free worker thread takes a task
sq_WorkerStart(t) ==
    /\ sq_entered
    /\ sq_tasks[t] = "pending"
    /\ Cardinality(SqRunning) < sq_max_workers
    /\ sq_tasks' = [sq_tasks EXCEPT ![t] = "running"]
    /\ UNCHANGED <<sq_pc, sq_force, sq_existed, sq_max_workers, sq_entered,
                   sq_batches, sq_events>>
    /\ UNCHANGED notSequence

\* the task returns or raises
sq_WorkerFinish(t) ==
    /\ sq_entered
    /\ sq_tasks[t] = "running"
    /\ sq_tasks' = [sq_tasks EXCEPT ![t] = "done"]
    /\ UNCHANGED <<sq_pc, sq_force, sq_existed, sq_max_workers, sq_entered,
                   sq_batches, sq_events>>
    /\ UNCHANGED notSequence

\* the stage after a parallel stage; ok tells whether the build goes on
\* (a missing prerequisite makes it return False)
StageAfter(stage, ok) ==
    IF stage = "catalog" THEN "parse"
    ELSE IF ~ok THEN "returned"
    ELSE IF stage = "parse" THEN "extract" ELSE "index"

\* Mutant: the stage function returns while tasks are still running.
sq_Return_unjoined ==
    /\ sq_pc \in ParallelStages
    /\ sq_entered
    /\ \A t \in 1..Len(sq_tasks) : sq_tasks[t] # "pending"
    /\ \E ok \in BOOLEAN :
         /\ (sq_tasks = <<>> /\ sq_pc # "catalog") => ~ok
         /\ sq_pc' = StageAfter(sq_pc, ok)
         /\ \E n \in 1..MaxBatches :
               sq_batches' = IF sq_pc' = "index" THEN n ELSE sq_batches
    /\ sq_entered' = FALSE
    /\ UNCHANGED <<sq_tasks, sq_force, sq_existed, sq_max_workers, sq_events>>
    /\ UNCHANGED notSequence

\* the as_completed loop has seen every future and the with-block is left:
\* the stage function returns
sq_Return ==
    /\ sq_pc \in ParallelStages
    /\ sq_entered
    /\ \A t \in 1..Len(sq_tasks) : sq_tasks[t] = "done"
    /\ \E ok \in BOOLEAN :
         /\ (sq_tasks = <<>> /\ sq_pc # "catalog") => ~ok
         /\ sq_pc' = StageAfter(sq_pc, ok)
         /\ \E n \in 1..MaxBatches :
               sq_batches' = IF sq_pc' = "index" THEN n ELSE sq_batches
    /\ sq_entered' = FALSE
    /\ sq_tasks' = <<>>
    /\ UNCHANGED <<sq_force, sq_existed, sq_max_workers, sq_events>>
    /\ UNCHANGED notSequence

\* Steps 4 to 6, on the calling thread
sq_ExtractAnalyze ==
    /\ sq_pc = "extract"
    /\ sq_events' = Append(sq_events, Event("extract"))
    /\ \E ok \in BOOLEAN : sq_pc' = IF ok THEN "embed" ELSE "returned"
    /\ UNCHANGED <<sq_force, sq_existed, sq_max_workers, sq_entered, sq_tasks,
                   sq_batches>>
    /\ UNCHANGED notSequence

\* Step 8: one bulk request of _index_documents_in_batches
sq_Bulk ==
    /\ sq_pc = "index"
    /\ sq_batches > 0
    /\ sq_events' = Append(sq_events, Event("bulk"))
    /\ sq_batches' = sq_batches - 1
    /\ \E indexed_any \in BOOLEAN :
         sq_pc' = IF sq_batches' > 0 THEN "index"
                  ELSE IF indexed_any THEN "store_schema" ELSE "returned"
    /\ UNCHANGED <<sq_force, sq_existed, sq_max_workers, sq_entered, sq_tasks>>
    /\ UNCHANGED notSequence

\* Step 9: the two index_document calls of _store_metadata
sq_StoreSchema ==
    /\ sq_pc = "store_schema"
    /\ sq_events' = Append(sq_events, Event("index:schema_metadata"))
    /\ sq_pc' = "store_patterns"
    /\ UNCHANGED <<sq_force, sq_existed, sq_max_workers, sq_entered, sq_tasks,
                   sq_batches>>
    /\ UNCHANGED notSequence

sq_StorePatterns ==
    /\ sq_pc = "store_patterns"
    /\ sq_events' = Append(sq_events, Event("index:business_patterns"))
    /\ sq_pc' = "returned"
    /\ UNCHANGED <<sq_force, sq_existed, sq_max_workers, sq_entered, sq_tasks,
                   sq_batches>>
    /\ UNCHANGED notSequence

sq_Worker == \E t \in 1..Len(sq_tasks) : sq_WorkerStart(t) \/ sq_WorkerFinish(t)

NextSequence ==
    \/ sq_CreateIndex
    \/ sq_Submit
    \/ sq_Worker
    \/ sq_Return
    \/ sq_ExtractAnalyze
    \/ sq_Bulk
    \/ sq_StoreSchema
    \/ sq_StorePatterns

SpecSequence == InitSequence /\ [][NextSequence]_vars

IndexRequestNames ==
    {"delete", "create", "bulk", "index:schema_metadata", "index:business_patterns"}

IsIndexRequest(e) == e.name \in IndexRequestNames

IsStageEntry(e) == ~IsIndexRequest(e)

\* place of a request in the order delete, create, bulk, schema digest,
\* patterns digest
RequestRank(name) ==
    CASE name = "delete" -> 1
      [] name = "create" -> 2
      [] name = "bulk" -> 3
      [] name = "index:schema_metadata" -> 4
      [] name = "index:business_patterns" -> 5

StageRank(name) ==
    CASE name = "create_index" -> 1
      [] name = "catalog" -> 2
      [] name = "parse" -> 3
      [] name = "extract" -> 4
      [] name = "embed" -> 5

EventNames(events) == { events[k].name : k \in 1..Len(events) }

\* C27: within one build the index requests come in the order delete (on a
\* forced rebuild of an existing index), create, the bulk batches, the
\* schema_metadata digest, the business_patterns digest, each of them but
\* the bulk request at most once; the stages are entered in their order;
\* and at every stage entry and every index request no worker task of a
\* parallel stage is running, so that no document is written before the
\* delete and create and none overlaps a worker of an earlier stage.
C27_StrictSequence ==
    \A requests \in {SelectSeq(sq_events, IsIndexRequest)} :
    \A entries \in {SelectSeq(sq_events, IsStageEntry)} :
        /\ \A i, j \in 1..Len(requests) :
              i < j =>
                 /\ RequestRank(requests[i].name) <= RequestRank(requests[j].name)
                 /\ RequestRank(requests[i].name) = RequestRank(requests[j].name)
                       => requests[i].name = "bulk"
        /\ \A i, j \in 1..Len(entries) :
              i < j => StageRank(entries[i].name) < StageRank(entries[j].name)
        /\ "delete" \in EventNames(requests) => sq_force /\ sq_existed
        /\ ("bulk" \in EventNames(requests) /\ sq_force /\ sq_existed)
              => {"delete", "create"} \subseteq EventNames(requests)
        /\ ("bulk" \in EventNames(requests) /\ ~sq_existed)
              => "create" \in EventNames(requests)
        /\ \A k \in 1..Len(sq_events) : sq_events[k].running = 0
        /\ sq_pc \notin ParallelStages => SqRunning = {}

\* a forced rebuild of an existing index that ran to its end: delete,
\* create, two bulk batches and both digests, after three parallel stages
C27_Witness ==
    /\ sq_pc = "returned"
    /\ sq_force
    /\ sq_existed
    /\ sq_max_workers = 2
    /\ SelectSeq(sq_events, IsIndexRequest) =
          <<Event("delete"), Event("create"), Event("bulk"), Event("bulk"),
            Event("index:schema_metadata"), Event("index:business_patterns")>>
    /\ {"catalog", "parse", "embed"} \subseteq EventNames(sq_events)

(***************************************************************************)
(* SQLAnalyzer.format_patterns_for_context, run twice on equal             *)
(* BusinessPattern values. The related tables of a table are a Python set  *)
(* and the date patterns go through list(set(...)): the order in which a   *)
(* set of strings is gone through changes from one interpreter run to the  *)
(* next (string hashes are salted per process), so each run picks one.     *)
(***************************************************************************)
MaxRelated == 3
MaxListed == 4
MaxDates == 6
MaxRuns == 2

RelatedPool == { "table" \o ToString(r) : r \in 1..MaxRelated }

\* the date patterns: n filters, the first m of them one text and the rest
\* another
DateLists ==
    { [k \in 1..n |-> IF k <= m THEN "date >= x" ELSE "year = y"] :
         n \in 0..MaxDates, m \in 0..MaxDates }

\* a list of n different entries
Listed(kind, n) == [k \in 1..n |-> kind \o ToString(k)]

\* one table, with a list of n entries, or the empty dictionary
PerTable(kind) ==
    { <<>> } \cup { << <<"sales", Listed(kind, n)>> >> : n \in 0..MaxListed }

RelationshipPool ==
    { <<>> } \cup { << <<"sales", r>> >> : r \in (SUBSET RelatedPool) \ {{}} }

PatternInputs ==
    { BusinessPattern(rel, filters, <<>>, dates, aggs) :
         rel \in RelationshipPool,
         filters \in PerTable("filter"),
         aggs \in PerTable("agg"),
         dates \in DateLists }

InitFormat ==
    /\ fmt_pattern \in PatternInputs
    /\ fmt_outputs = <<>>
    /\ IdleEmbed
    /\ IdleBatch
    /\ IdleParse
    /\ IdleQuery
    /\ IdleBuild
    /\ IdleExtract
    /\ IdleValidate
    /\ IdleResponse
    /\ IdleAnalyze
    /\ IdleMine
    /\ IdleDetect
    /\ IdleCells
    /\ IdleHybrid
    /\ IdleRate
    /\ IdleSequence
    /\ IdleDocs
    /\ IdleAdditive

\* sep.join(items)
RECURSIVE JoinWith(_, _)
JoinWith(sep, items) ==
    IF items = <<>> THEN <<>>
    ELSE IF Len(items) = 1 THEN <<Head(items)>>
    ELSE <<Head(items), sep>> \o JoinWith(sep, Tail(items))

\* items[:n]
FirstN(items, n) == SubSeq(items, 1, Min(n, Len(items)))

\* lines 395-398; order gives, for each table, the order in which its set
\* of related tables is gone through
RelationshipLines(table_relationships, order) ==
    IF table_relationships = <<>> THEN <<>>
    ELSE << <<"## Common Table Relationships">> >>
         \o [i \in 1..Len(table_relationships) |->
               <<"- ", table_relationships[i][1], " commonly joined with: ">>
               \o JoinWith(", ", order[i])]

\* lines 401-405 and 408-412: a header, then one line per table whose list
\* is not empty, with its first three entries
ListLines(header, per_table) ==
    IF per_table = <<>> THEN <<>>
    ELSE LET shown == SelectSeq(per_table, LAMBDA e : e[2] # <<>>)
         IN << <<header>> >>
            \o [i \in 1..Len(shown) |->
                  <<"- ", shown[i][1], ": ">>
                  \o JoinWith(", ", FirstN(shown[i][2], 3))]

\* lines 415-419; order is the order in which set(date_patterns[:5]) is
\* gone through
DateLines(date_patterns, order) ==
    IF date_patterns = <<>> THEN <<>>
    ELSE << <<"\n## Common Date Filters">> >>
         \o [i \in 1..Len(order) |-> <<"- ", order[i]>>]

\* "\n".join(context_parts), as the list of its pieces
format_patterns_for_context(business_pattern, related_order, date_order) ==
    Join(JoinWith(<<"\n">>,
        RelationshipLines(business_pattern.table_relationships, related_order)
        \o ListLines("\n## Common Filters by Table",
                     business_pattern.common_filters)
        \o ListLines("\n## Common Aggregations by Table",
                     business_pattern.aggregation_patterns)
        \o DateLines(business_pattern.date_patterns, date_order)))

\* the orders a run may meet: one per set of related tables
RelatedOrders(table_relationships) ==
    { o \in [1..Len(table_relationships) ->
               UNION { Orders(table_relationships[i][2]) :
                          i \in 1..Len(table_relationships) }] :
         \A i \in 1..Len(table_relationships) :
            o[i] \in Orders(table_relationships[i][2]) }

\* One run of format_patterns_for_context on the pattern.
fmt_Run ==
    /\ fmt_pattern # <<>>
    /\ Len(fmt_outputs) < MaxRuns
    /\ \E related_order \in RelatedOrders(fmt_pattern.table_relationships) :
       \E date_order \in Orders(Range(FirstN(fmt_pattern.date_patterns, 5))) :
          fmt_outputs' =
             Append(fmt_outputs,
                    format_patterns_for_context(fmt_pattern, related_order,
                                                date_order))
    /\ UNCHANGED fmt_pattern
    /\ UNCHANGED notFormat

NextFormat == fmt_Run

SpecFormat == InitFormat /\ [][NextFormat]_vars

\* C28: two runs of format_patterns_for_context on equal BusinessPattern
\* values return the same text, character for character.
C28_Deterministic ==
    \A i, j \in 1..Len(fmt_outputs) : fmt_outputs[i] = fmt_outputs[j]

\* The part that holds: the same text whenever no set of the pattern has
\* more than one element.
C28_DeterministicOnSingletons ==
    (/\ fmt_pattern # <<>>
     /\ \A i \in 1..Len(fmt_pattern.table_relationships) :
           Cardinality(fmt_pattern.table_relationships[i][2]) <= 1
     /\ Cardinality(Range(FirstN(fmt_pattern.date_patterns, 5))) <= 1)
    => \A i, j \in 1..Len(fmt_outputs) : fmt_outputs[i] = fmt_outputs[j]

\* two runs on a pattern with one related table and one date pattern,
\* repeated
C28_SingletonsWitness ==
    /\ Len(fmt_outputs) = 2
    /\ Len(fmt_pattern.table_relationships) = 1
    /\ Cardinality(fmt_pattern.table_relationships[1][2]) = 1
    /\ Len(fmt_pattern.date_patterns) = 2
    /\ Cardinality(Range(fmt_pattern.date_patterns)) = 1

(***************************************************************************)
(* generate_embeddings_for_knowledge_base and the writes that follow it:   *)
(* the texts, the embeddings, the documents with their ids, the bulk       *)
(* requests and the two digest documents.                                  *)
(***************************************************************************)
MaxDocExtracts == 3

\* an extract: sql_query, context_before and context_after are texts,
\* notebook_path the components between the slashes
Extract(sql_query, context_before, context_after, notebook_path) ==
    [sql_query |-> sql_query, context_before |-> context_before,
     context_after |-> context_after, notebook_path |-> notebook_path]

ExtractPool ==
    { Extract(<<"SELECT", " ", "x">>, <<>>, <<>>, <<>>),
      Extract(<<"SELECT", " ", "x">>, <<" ", "sales", " ">>, <<"totals">>,
              <<"reports", "daily.ipynb">>),
      Extract(<<"%", "sql", " ", "SELECT", "\n", "y", " ", "--", "z">>, <<>>,
              <<"\n">>, <<"daily.ipynb">>),
      Extract(<<" ">>, <<>>, <<>>, <<"home", "reports", "daily.ipynb">>),
      Extract(<<" ">>, <<>>, <<>>, <<"daily.ipynb">>) }

\* lines 255-270; no literal of the corpus is a hundred characters long
_clean_sql_for_embedding(sql) ==
    LET no_magic == RemoveMagic(RemoveMagic(sql, TRUE, <<"%", "sql">>),
                                TRUE, <<"%", "%", "sql">>)
        no_comments == StripBlockComments(StripLineComments(no_magic, FALSE))
    IN Strip(CollapseRuns(no_comments))

\* one entry of parts, or nothing
PartIf(cond, part) == IF cond THEN <<part>> ELSE <<>>

\* lines 216-243
prepare_text_for_embedding(sql_extract) ==
    LET context_before == Strip(sql_extract.context_before)
        sql_query == Strip(sql_extract.sql_query)
        context_after == Strip(sql_extract.context_after)
        path_parts == sql_extract.notebook_path
    IN Join(JoinWith(<<" | ">>,
          PartIf(context_before # <<>>, <<"Context: ">> \o context_before)
          \o PartIf(sql_query # <<>>,
                    <<"Query: ">> \o _clean_sql_for_embedding(sql_query))
          \o PartIf(context_after # <<>>, <<"Description: ">> \o context_after)
          \o PartIf(Len(path_parts) > 1,
                    <<"Source: ", path_parts[Len(path_parts) - 1], "/",
                      path_parts[Len(path_parts)]>>)))

\* the vector the provider returns for a text
Embedding(prepared) == <<"vector of">> \o prepared

NoVector == <<>>

\* lines 323-339: the document of extract i
Document(i, extract, embedding) ==
    [id |-> "sql_" \o ToString(i),
     sql_query |-> extract.sql_query,
     business_context |-> prepare_text_for_embedding(extract),
     embedding |-> embedding]

\* Mutant: the documents are numbered in the order they are kept.
Combine_renumbered(extracts, embs) ==
    LET kept == SelectSeq([i \in 1..Min(Len(extracts), Len(embs)) |-> i],
                          LAMBDA i : embs[i] # NoVector)
    IN [k \in 1..Len(kept) |->
          Document(k - 1, extracts[kept[k]], embs[kept[k]])]

\* lines 320-343: enumerate(zip(sql_extracts, embeddings)), keeping the
\* positions whose embedding is not None
Combine(extracts, embs) ==
    LET kept == SelectSeq([i \in 1..Min(Len(extracts), Len(embs)) |-> i],
                          LAMBDA i : embs[i] # NoVector)
    IN [k \in 1..Len(kept) |->
          Document(kept[k] - 1, extracts[kept[k]], embs[kept[k]])]

\* what the index holds for a document; a query document has no
\* document_type field, written "none"
Stored(id, document_type, content) ==
    [id |-> id, document_type |-> document_type, content |-> content]

\* client.index / the index action of client.bulk: the document of that id
\* is replaced
Write(index, entry) == { e \in index : e.id # entry.id } \cup {entry}

RECURSIVE WriteAll(_, _)
WriteAll(index, entries) ==
    IF entries = <<>> THEN index
    ELSE WriteAll(Write(index, Head(entries)), Tail(entries))

\* the digests of an earlier build
EarlierDigests ==
    { Stored("schema_metadata", "metadata", <<"earlier schema">>),
      Stored("business_patterns", "patterns", <<"earlier patterns">>) }

InitDocs ==
    /\ kd_extracts \in SeqsUpTo(ExtractPool, MaxDocExtracts)
    /\ kd_texts = <<>>
    /\ kd_embeddings = <<>>
    /\ kd_documents = <<>>
    /\ kd_start = 0
    /\ kd_indexed = 0
    /\ kd_index \in { {}, EarlierDigests }
    /\ kd_pc = "prepare"
    /\ IdleEmbed
    /\ IdleBatch
    /\ IdleParse
    /\ IdleQuery
    /\ IdleBuild
    /\ IdleExtract
    /\ IdleValidate
    /\ IdleResponse
    /\ IdleAnalyze
    /\ IdleMine
    /\ IdleDetect
    /\ IdleCells
    /\ IdleHybrid
    /\ IdleRate
    /\ IdleSequence
    /\ IdleFormat
    /\ IdleAdditive

\* lines 311-314
kd_Prepare ==
    /\ kd_pc = "prepare"
    /\ kd_texts' = [i \in 1..Len(kd_extracts) |->
                       prepare_text_for_embedding(kd_extracts[i])]
    /\ kd_pc' = "embed"
    /\ UNCHANGED <<kd_extracts, kd_embeddings, kd_documents, kd_start,
                   kd_indexed, kd_index>>
    /\ UNCHANGED notDocs

\* line 317: one entry per text, in the order of the texts, None where the
\* text is empty or the provider gave up
kd_Embed ==
    /\ kd_pc = "embed"
    /\ \E failed \in SUBSET (1..Len(kd_texts)) :
          kd_embeddings' =
             [i \in 1..Len(kd_texts) |->
                 IF i \in failed \/ kd_texts[i] = <<>> THEN NoVector
                 ELSE Embedding(kd_texts[i])]
    /\ kd_pc' = "combine"
    /\ UNCHANGED <<kd_extracts, kd_texts, kd_documents, kd_start,
                   kd_indexed, kd_index>>
    /\ UNCHANGED notDocs

\* lines 320-346; the build stops when no document is left
kd_Combine ==
    /\ kd_pc = "combine"
    /\ kd_documents' = Combine(kd_extracts, kd_embeddings)
    /\ kd_pc' = IF kd_documents' = <<>> THEN "failed" ELSE "index"
    /\ UNCHANGED <<kd_extracts, kd_texts, kd_embeddings, kd_start,
                   kd_indexed, kd_index>>
    /\ UNCHANGED notDocs

\* one turn of the loop of _index_documents_in_batches: bulk_index_documents
\* writes every document of the batch under doc.get('id'); the request
\* raises, or the index takes some of them.  The build returns False when
\* nothing at all was taken.
kd_Bulk ==
    /\ kd_pc = "index"
    /\ \E batch \in {Batch(kd_documents, kd_start)} :
       \E taken \in SUBSET (1..Len(batch)) :
          /\ kd_index' =
             WriteAll(kd_index,
                      [k \in 1..Len(SelectSeq([i \in 1..Len(batch) |-> i],
                                              LAMBDA i : i \in taken)) |->
                          LET doc == batch[SelectSeq([i \in 1..Len(batch) |-> i],
                                                     LAMBDA i : i \in taken)[k]]
                          IN Stored(doc.id, "none", doc.business_context)])
          /\ kd_indexed' = kd_indexed + Cardinality(taken)
    /\ kd_start' = kd_start + batch_size
    /\ kd_pc' = IF kd_start' < Len(kd_documents) THEN "index"
               ELSE IF kd_indexed' = 0 THEN "failed"
               ELSE "store_schema"
    /\ UNCHANGED <<kd_extracts, kd_texts, kd_embeddings, kd_documents>>
    /\ UNCHANGED notDocs

\* _store_metadata: index_document('schema_metadata', schema_doc)
kd_StoreSchema ==
    /\ kd_pc = "store_schema"
    /\ \E ok \in BOOLEAN :
          kd_index' = IF ok
                      THEN Write(kd_index, Stored("schema_metadata", "metadata",
                                                  <<"schema">>))
                      ELSE kd_index
    /\ kd_pc' = "store_patterns"
    /\ UNCHANGED <<kd_extracts, kd_texts, kd_embeddings, kd_documents, kd_start,
                   kd_indexed>>
    /\ UNCHANGED notDocs

\* _store_metadata: index_document('business_patterns', patterns_doc)
kd_StorePatterns ==
    /\ kd_pc = "store_patterns"
    /\ \E ok \in BOOLEAN :
          kd_index' = IF ok
                      THEN Write(kd_index, Stored("business_patterns", "patterns",
                                                  <<"patterns">>))
                      ELSE kd_index
    /\ kd_pc' = "done"
    /\ UNCHANGED <<kd_extracts, kd_texts, kd_embeddings, kd_documents, kd_start,
                   kd_indexed>>
    /\ UNCHANGED notDocs

NextDocs ==
    \/ kd_Prepare
    \/ kd_Embed
    \/ kd_Combine
    \/ kd_Bulk
    \/ kd_StoreSchema
    \/ kd_StorePatterns

SpecDocs == InitDocs /\ [][NextDocs]_vars

DigestIds == {"schema_metadata", "business_patterns"}

DocumentIds == { kd_documents[k].id : k \in 1..Len(kd_documents) }

Combined == kd_pc \in {"index", "store_schema", "store_patterns", "done"}

\* C29: the documents of one build have pairwise distinct ids sql_<i>, i
\* the position of the extract in the extract list, with a document for
\* exactly the positions whose embedding did not fail, in the order of the
\* extracts and not renumbered; no id is a digest id, so that a digest id
\* of the index never holds a query document and a query id never a
\* digest; and each document carries as business_context the text that
\* was submitted for its embedding, with the vector returned for it.
C29_DocumentIds ==
    /\ \A a, b \in 1..Len(kd_documents) :
          a < b => kd_documents[a].id # kd_documents[b].id
    /\ DocumentIds \cap DigestIds = {}
    /\ Combined =>
          /\ \A i \in 0..(Len(kd_extracts) - 1) :
                (kd_embeddings[i + 1] # NoVector)
                   <=> ("sql_" \o ToString(i)) \in DocumentIds
          /\ \A k \in 1..Len(kd_documents) :
                \E i \in 0..(Len(kd_extracts) - 1) :
                   /\ kd_documents[k].id = "sql_" \o ToString(i)
                   /\ kd_documents[k].business_context = kd_texts[i + 1]
                   /\ kd_documents[k].embedding = kd_embeddings[i + 1]
                   /\ kd_documents[k].embedding = Embedding(kd_texts[i + 1])
                   /\ kd_documents[k].sql_query = kd_extracts[i + 1].sql_query
                   /\ \A l \in 1..Len(kd_documents) :
                         \A j \in 0..(Len(kd_extracts) - 1) :
                            (k < l /\ kd_documents[l].id = "sql_" \o ToString(j))
                               => i < j
    /\ \A e \in kd_index :
          /\ e.id \in DigestIds <=> e.document_type # "none"
          /\ e.document_type = "none" => e.id \in DocumentIds
          /\ e.id = "schema_metadata" => e.document_type = "metadata"
          /\ e.id = "business_patterns" => e.document_type = "patterns"

\* three extracts of which the middle one got no embedding: the documents
\* sql_0 and sql_2 are in the index next to the two digests, written over
\* the digests of an earlier build
C29_Witness ==
    /\ kd_pc = "done"
    /\ Len(kd_extracts) = 3
    /\ kd_embeddings[2] = NoVector
    /\ DocumentIds = {"sql_0", "sql_2"}
    /\ { e.id : e \in kd_index } = {"sql_0", "sql_2"} \cup DigestIds
    /\ EarlierDigests \cap kd_index = {}
    /\ kd_documents[1].business_context # kd_documents[2].business_context

(***************************************************************************)
(* Two builds in a row on the same index, the second with                  *)
(* force_rebuild=False: create_index finds the index and leaves it as it   *)
(* is, and the build goes through the same steps on its own corpus.        *)
(***************************************************************************)
MaxAdditive == 2

\* two extracts with the same statement and different prepared texts
AdditivePool ==
    { e \in ExtractPool : e.sql_query = <<"SELECT", " ", "x">> }

QueryDocuments(index) == { e \in index : e.document_type = "none" }

restOfAdditive ==
    <<embVars, batchVars, parseVars, queryVars, indexVars, buildVars,
      extractVars, validateVars, responseVars, analyzeVars, mineVars,
      detectVars, cellsVars, hybridVars, rateVars, sequenceVars, formatVars>>

InitAdditive ==
    /\ kd_extracts \in SeqsUpTo(AdditivePool, MaxAdditive)
    /\ kd_texts = <<>>
    /\ kd_embeddings = <<>>
    /\ kd_documents = <<>>
    /\ kd_start = 0
    /\ kd_indexed = 0
    /\ kd_index = {}
    /\ kd_pc = "prepare"
    /\ ad_build = 1
    /\ ad_first = {}
    /\ IdleEmbed
    /\ IdleBatch
    /\ IdleParse
    /\ IdleQuery
    /\ IdleBuild
    /\ IdleExtract
    /\ IdleValidate
    /\ IdleResponse
    /\ IdleAnalyze
    /\ IdleMine
    /\ IdleDetect
    /\ IdleCells
    /\ IdleHybrid
    /\ IdleRate
    /\ IdleSequence
    /\ IdleFormat

\* build_knowledge_base(force_rebuild=False) once more, after a build that
\* returned True: the index exists and is reused with what it holds
ad_SecondBuild ==
    /\ ad_build = 1
    /\ kd_pc = "done"
    /\ ad_build' = 2
    /\ ad_first' = QueryDocuments(kd_index)
    /\ kd_extracts' \in SeqsUpTo(AdditivePool, MaxAdditive)
    /\ kd_texts' = <<>>
    /\ kd_embeddings' = <<>>
    /\ kd_documents' = <<>>
    /\ kd_start' = 0
    /\ kd_indexed' = 0
    /\ kd_pc' = "prepare"
    /\ UNCHANGED kd_index
    /\ UNCHANGED restOfAdditive

NextAdditive ==
    \/ kd_Prepare
    \/ kd_Embed
    \/ kd_Combine
    \/ kd_Bulk
    \/ kd_StoreSchema
    \/ kd_StorePatterns
    \/ ad_SecondBuild

SpecAdditive == InitAdditive /\ [][NextAdditive]_vars

\* C30: after two successful builds in a row, the second without
\* force_rebuild, every query document the first build left in the index
\* is still there under its id with the content it had.
C30_SecondBuildAdditive ==
    (ad_build = 2 /\ kd_pc = "done") => ad_first \subseteq kd_index

\* The part that holds: no id of the first build is lost, and a document
\* of the first build whose id the second build did not write is
\* unchanged.
C30_IdsKeptAndUnwrittenUnchanged ==
    ad_build = 2 =>
       \A e \in ad_first :
          /\ \E f \in kd_index : f.id = e.id
          /\ e.id \notin DocumentIds => e \in kd_index

\* a second build with fewer documents than the first has returned True
C30_UnwrittenWitness ==
    /\ ad_build = 2
    /\ kd_pc = "done"
    /\ \E e \in ad_first : e.id \notin DocumentIds
====
